---------------------------- MODULE Spec2Model ----------------------------
(***************************************************************************)
(* A model of the relationship-coach-simulator backend (src/app).         *)
(*                                                                         *)
(* Texts are sequences of tokens (strings).  Python's None is the empty   *)
(* sequence and a present optional value x is <<x>>.  A dict is a          *)
(* function whose domain is its set of keys.                               *)
(***************************************************************************)
EXTENDS Integers, Sequences, FiniteSets, TLC

VARIABLES
    \* app/agents/base.py: one Memory object
    _entries, _metadata, memCall, memRet

memVars == <<_entries, _metadata, memCall, memRet>>

VARIABLES
    \* the entry list of each agent's Memory (agent.memory._entries)
    memory,
    \* one call of run_intake_summary or score_date_exchange, and its result
    llm, llmRet

llmVars == <<memory, llm, llmRet>>

VARIABLES
    \* app/intake_live.py: the session store
    _sessions,
    \* os.environ holds OPENROUTER_API_KEY and OPENROUTER_MODEL
    configured,
    \* per session id, the submit_answer call in flight or its outcome
    live,
    \* per session id, the number of submit_answer calls that returned
    accepted,
    \* the outcome of a start_session or get_status, in the step that makes it
    intakeRet,
    \* time.time()
    now,
    \* per request, the submit_answer call it has in flight, where requests
    \* run concurrently
    inflight

intakeVars == <<_sessions, configured, live, accepted, intakeRet, now, inflight>>

VARIABLES
    \* one call of NeutralEvaluatorAgent.run_date_exchange: its position, its
    \* arguments and locals, and the model calls it has issued and finished
    date,
    \* what that call returned
    dateRet

dateVars == <<date, dateRet>>

VARIABLES
    \* the last call of _extract_latest_date_exchange and what it returned
    latest

reportVars == <<latest>>

VARIABLES
    \* app/registry.py: the module global
    _registry,
    \* the objects constructed so far, each known by its index
    objects,
    \* the last call of a registry function and what it returned
    regRet,
    \* per function and argument, the objects its calls have returned
    handed,
    \* per user, the entries written to the memory of the user's matchmaker
    written

registryVars == <<_registry, objects, regRet, handed, written>>

VARIABLES
    \* the last call of _extract_intake_summary and what it returned
    extracted

extractVars == <<extracted>>

VARIABLES
    \* app/main.py: per request slot, the endpoint call it holds: its
    \* arguments, the await it is suspended at, its locals and its response
    requests,
    \* the number of endpoint calls started
    served

apiVars == <<requests, served>>

vars ==
    <<memVars, llmVars, intakeVars, dateVars, reportVars,
      registryVars, extractVars, apiVars>>

\* what the actions of one part of the model leave alone
memOthers ==
    <<llmVars, intakeVars, dateVars, reportVars, registryVars,
      extractVars, apiVars>>

llmOthers ==
    <<memVars, intakeVars, dateVars, reportVars, registryVars,
      extractVars, apiVars>>

intakeOthers ==
    <<memVars, llm, llmRet, dateVars, reportVars,
      registryVars, inflight, extractVars, apiVars>>

concurrentOthers ==
    <<memVars, llm, llmRet, dateVars, reportVars,
      registryVars, live, accepted, extractVars, apiVars>>

dateOthers ==
    <<memVars, llm, llmRet, intakeVars, reportVars,
      registryVars, extractVars, apiVars>>

reportOthers ==
    <<memVars, llm, llmRet, intakeVars, dateVars,
      registryVars, extractVars, apiVars>>

registryOthers ==
    <<memVars, llmVars, intakeVars, dateVars, reportVars,
      extractVars, apiVars>>

extractOthers ==
    <<memVars, llm, llmRet, intakeVars, dateVars,
      reportVars, registryVars, apiVars>>

apiOthers ==
    <<memVars, llm, llmRet, _sessions, configured,
      live, accepted, intakeRet, now, inflight,
      dateVars, reportVars, registryVars, extractVars>>

-----------------------------------------------------------------------------
(* Python values *)

None == <<>>

Some(x) == <<x>>

EmptyDict == [k \in {} |-> ""]

\* dict.get(key): the value, or None
DictGet(d, key) == IF key \in DOMAIN d THEN Some(d[key]) ELSE None

Min(a, b) == IF a <= b THEN a ELSE b

Max(a, b) == IF a >= b THEN a ELSE b

\* s[:k] for k >= 0
Take(s, k) == SubSeq(s, 1, Min(k, Len(s)))

\* All sequences over S of length 0..n
SeqsUpTo(S, n) == UNION {[1..m -> S] : m \in 0..n}

IsPrefix(s, t) == Len(s) <= Len(t) /\ SubSeq(t, 1, Len(s)) = s

-----------------------------------------------------------------------------
(* Python str methods on token sequences *)

Whitespace == {" ", "\n"}

\* str.lower(), one token
LowerChar(c) ==
    CASE c = "A" -> "a"
      [] c = "B" -> "b"
      [] c = "Intake summary" -> "intake summary"
      [] OTHER -> c

\* str.lower()
Lower(s) == [i \in 1..Len(s) |-> LowerChar(s[i])]

RECURSIVE LStrip(_)
LStrip(s) ==
    IF s # <<>> /\ Head(s) \in Whitespace THEN LStrip(Tail(s)) ELSE s

RECURSIVE RStrip(_)
RStrip(s) ==
    IF s # <<>> /\ s[Len(s)] \in Whitespace
    THEN RStrip(SubSeq(s, 1, Len(s) - 1))
    ELSE s

\* str.strip()
Strip(s) == RStrip(LStrip(s))

\* q in t
Contains(t, q) ==
    \E i \in 0..(Len(t) - Len(q)) : SubSeq(t, i + 1, i + Len(q)) = q

-----------------------------------------------------------------------------
(* app/agents/base.py: class Memory *)

MaxEntries == 2

MaxK == 2

\* a write that puts the new entry in place of the last one
write_Overwrite(entries, text, metadata) ==
    Append(IF entries = <<>> THEN entries
           ELSE SubSeq(entries, 1, Len(entries) - 1),
           [text |-> text,
            metadata |-> IF metadata = None THEN EmptyDict ELSE metadata[1]])

\* Memory.write: metadata is an optional dict, "metadata or {}"
write(entries, text, metadata) ==
    Append(entries,
           [text |-> text,
            metadata |-> IF metadata = None THEN EmptyDict ELSE metadata[1]])

\* a search that forgets to lower-case the stored text
search_NoLower(entries, query, k) ==
    LET q == Strip(Lower(query))
        hits == SelectSeq(entries, LAMBDA e : Contains(e.text, q))
    IN  Take(hits, k)

\* Memory.search
search(entries, query, k) ==
    LET q == Strip(Lower(query))
        hits == SelectSeq(entries, LAMBDA e : Contains(Lower(e.text), q))
    IN  Take(hits, k)

\* the loop of Memory.search_metadata from entry i down to 1; value is what
\* md.get(key) is compared with (None matches an entry without the key)
RECURSIVE search_metadata_loop(_, _, _, _, _, _)
search_metadata_loop(entries, key, value, k, i, hits) ==
    IF i = 0 THEN hits
    ELSE IF DictGet(entries[i].metadata, key) = value
         THEN LET hits2 == Append(hits, entries[i])
              IN  IF Len(hits2) >= k THEN hits2
                  ELSE search_metadata_loop(entries, key, value, k, i - 1, hits2)
         ELSE search_metadata_loop(entries, key, value, k, i - 1, hits)

\* Memory.search_metadata
search_metadata(entries, key, value, k) ==
    search_metadata_loop(entries, key, value, k, Len(entries), <<>>)

\* Memory.latest_by_type
latest_by_type(entries, entry_type) ==
    LET hits == search_metadata(entries, "type", Some(entry_type), 1)
    IN  IF hits # <<>> THEN Some(hits[1]) ELSE None

\* Memory.all: a copy of the list
all(entries) == entries

\* Memory.set_metadata
set_metadata(metadata, key, value) ==
    [k \in DOMAIN metadata \cup {key} |->
        IF k = key THEN value ELSE metadata[k]]

\* Memory.get_metadata
get_metadata(metadata, key, default) ==
    IF key \in DOMAIN metadata THEN metadata[key] ELSE default

(* The inputs of the Memory operations *)

MemTexts == {<<"a", "b">>, <<"b", "A", "b">>, <<"b">>}

MemQueries ==
    {<<>>, <<" ">>, <<"a">>, <<" ", "A", "b", " ">>, <<"B", "a">>,
     <<"b", "b">>}

MemMetas ==
    {EmptyDict, [type |-> "t1"], [type |-> "t2", user_id |-> "u1"]}

MemMetaArgs == {None} \cup {Some(d) : d \in MemMetas \ {EmptyDict}}

MemKeys == {"type", "user_id"}

MemValues == {None, Some("t1"), Some("t2"), Some("u1")}

MemIdle ==
    /\ _entries = <<>>
    /\ _metadata = EmptyDict
    /\ memCall = [op |-> "idle"]
    /\ memRet = None

MemInit ==
    /\ _entries = <<>>
    /\ _metadata = EmptyDict
    /\ memCall = [op |-> "init"]
    /\ memRet = None

Memory_write(text, metadata) ==
    /\ UNCHANGED memOthers
    /\ Len(_entries) < MaxEntries
    /\ _entries' = write(_entries, text, metadata)
    /\ memCall' = [op |-> "write", text |-> text, metadata |-> metadata]
    /\ memRet' = None
    /\ UNCHANGED _metadata

Memory_search(query, k) ==
    /\ UNCHANGED memOthers
    /\ memRet' = search(_entries, query, k)
    /\ memCall' = [op |-> "search", query |-> query, k |-> k]
    /\ UNCHANGED <<_entries, _metadata>>

Memory_search_metadata(key, value, k) ==
    /\ UNCHANGED memOthers
    /\ memRet' = search_metadata(_entries, key, value, k)
    /\ memCall' = [op |-> "search_metadata", key |-> key, value |-> value,
                   k |-> k]
    /\ UNCHANGED <<_entries, _metadata>>

Memory_latest_by_type(entry_type) ==
    /\ UNCHANGED memOthers
    /\ memRet' = latest_by_type(_entries, entry_type)
    /\ memCall' = [op |-> "latest_by_type", entry_type |-> entry_type]
    /\ UNCHANGED <<_entries, _metadata>>

Memory_all ==
    /\ UNCHANGED memOthers
    /\ memRet' = all(_entries)
    /\ memCall' = [op |-> "all"]
    /\ UNCHANGED <<_entries, _metadata>>

Memory_set_metadata(key, value) ==
    /\ UNCHANGED memOthers
    /\ _metadata' = set_metadata(_metadata, key, value)
    /\ memCall' = [op |-> "set_metadata", key |-> key, value |-> value]
    /\ memRet' = None
    /\ UNCHANGED _entries

Memory_get_metadata(key) ==
    /\ UNCHANGED memOthers
    /\ memRet' = Some(get_metadata(_metadata, key, "default"))
    /\ memCall' = [op |-> "get_metadata", key |-> key]
    /\ UNCHANGED <<_entries, _metadata>>

Memory_clear ==
    /\ UNCHANGED memOthers
    /\ _entries' = <<>>
    /\ _metadata' = EmptyDict
    /\ memCall' = [op |-> "clear"]
    /\ memRet' = None

MemNext ==
    \/ \E text \in MemTexts, metadata \in MemMetaArgs :
          Memory_write(text, metadata)
    \/ \E query \in MemQueries, k \in 0..MaxK : Memory_search(query, k)
    \/ \E key \in MemKeys, value \in MemValues, k \in 0..MaxK :
          Memory_search_metadata(key, value, k)
    \/ \E entry_type \in {"t1", "t2", "t3"} : Memory_latest_by_type(entry_type)
    \/ Memory_all
    \/ Memory_set_metadata("user_id", "u1")
    \/ \E key \in MemKeys : Memory_get_metadata(key)
    \/ Memory_clear

-----------------------------------------------------------------------------
(* json: objects are ordered dicts [keys, vals]; a member of an object is   *)
(* one token (PairKey, PairVal give its key and value) or, for a text       *)
(* value, a key token followed by a quoted string.                          *)

Quote == "\""

EmptyOD == [keys |-> <<>>, vals |-> EmptyDict]

ODHas(d, k) == k \in DOMAIN d.vals

\* d[k] = v
ODSet(d, k, v) ==
    [keys |-> IF ODHas(d, k) THEN d.keys ELSE Append(d.keys, k),
     vals |-> [x \in DOMAIN d.vals \cup {k} |-> IF x = k THEN v ELSE d.vals[x]]]

\* dict.setdefault(k, v)
setdefault(d, k, v) == IF ODHas(d, k) THEN d ELSE ODSet(d, k, v)

PairTokens ==
    {"P", "P0", "P?", "P-", "D", "D0", "D?", "D-", "T",
     "SA", "SA5", "SB", "SB5", "CO", "CO50", "RE", "RE?", "RE!", "QU"}

TextKeyTokens == {"T:", "QU:"}

PairKey(tok) ==
    CASE tok \in {"P", "P0", "P?", "P-"} -> "preferences"
      [] tok \in {"D", "D0", "D?", "D-"} -> "dealbreakers"
      [] tok \in {"T", "T:"} -> "dating_thesis"
      [] tok \in {"SA", "SA5"} -> "score_a"
      [] tok \in {"SB", "SB5"} -> "score_b"
      [] tok \in {"CO", "CO50"} -> "compatibility"
      [] tok \in {"RE", "RE?", "RE!"} -> "reasons"
      [] tok \in {"QU", "QU:"} -> "quote"

PairVal(tok) ==
    CASE tok = "P" -> <<"p1">>
      [] tok = "D" -> <<"d1">>
      [] tok \in {"P0", "D0"} -> <<>>
      [] tok = "P?" -> <<"Unable to parse preferences">>
      [] tok = "D?" -> <<"Unable to parse dealbreakers">>
      [] tok \in {"P-", "D-"} -> <<"No intake summary available">>
      [] tok = "T" -> <<"t1">>
      [] tok = "SA" -> 7
      [] tok = "SB" -> 3
      [] tok \in {"SA5", "SB5"} -> 5
      [] tok = "CO" -> 80
      [] tok = "CO50" -> 50
      [] tok = "RE" -> <<"r1">>
      [] tok = "RE?" -> <<"Unable to parse reasons">>
      [] tok = "RE!" -> <<"Scoring failed - unable to parse LLM response">>
      [] tok = "QU" -> <<"q1">>

\* the member token that json.dumps writes for a key and a value that is not
\* a text
TokenOf(k, v) ==
    LET fits == {tok \in PairTokens : PairKey(tok) = k /\ PairVal(tok) = v}
    IN  IF fits = {} THEN "?" ELSE CHOOSE tok \in fits : TRUE

TextKeys == {"dating_thesis", "quote"}

TextKeyToken(k) == IF k = "dating_thesis" THEN "T:" ELSE "QU:"

\* the characters json.dumps escapes inside a string
EscapeChar(c) ==
    CASE c = "\n" -> "\\n"
      [] c = Quote -> "\\\""
      [] OTHER -> c

UnescapeChar(c) ==
    CASE c = "\\n" -> "\n"
      [] c = "\\\"" -> Quote
      [] OTHER -> c

JsonFail == [ok |-> FALSE, next |-> 0, isDict |-> FALSE, val |-> EmptyOD]

RECURSIVE SkipWs(_, _)
SkipWs(s, i) ==
    IF i <= Len(s) /\ s[i] \in Whitespace THEN SkipWs(s, i + 1) ELSE i

\* a string whose opening quote is s[i]
ParseString(s, i) ==
    LET closers == {j \in (i + 1)..Len(s) : s[j] = Quote}
    IN  IF closers = {} THEN JsonFail
        ELSE LET j == CHOOSE c \in closers : \A c2 \in closers : c <= c2
                 body == SubSeq(s, i + 1, j - 1)
             IN  IF \E n \in 1..Len(body) : body[n] = "\n" THEN JsonFail
                 ELSE [ok |-> TRUE, next |-> j + 1, isDict |-> FALSE,
                       val |-> [n \in 1..Len(body) |-> UnescapeChar(body[n])]]

\* the members of an object and its closing brace, from s[i] on
RECURSIVE ParseMembers(_, _, _)
ParseMembers(s, i, d) ==
    IF i > Len(s) THEN JsonFail
    ELSE IF s[i] = "}"
    THEN [ok |-> TRUE, next |-> i + 1, isDict |-> TRUE, val |-> d]
    ELSE IF s[i] \in PairTokens
    THEN ParseMembers(s, SkipWs(s, i + 1), ODSet(d, PairKey(s[i]), PairVal(s[i])))
    ELSE IF s[i] \in TextKeyTokens
    THEN LET j == SkipWs(s, i + 1)
         IN  IF j <= Len(s) /\ s[j] = Quote
             THEN LET r == ParseString(s, j)
                  IN  IF r.ok
                      THEN ParseMembers(s, SkipWs(s, r.next),
                                        ODSet(d, PairKey(s[i]), r.val))
                      ELSE JsonFail
             ELSE JsonFail
    ELSE JsonFail

RECURSIVE ParseValue(_, _)
RECURSIVE ParseElems(_, _)

\* the elements of an array and its closing bracket, from s[i] on
ParseElems(s, i) ==
    IF i > Len(s) THEN JsonFail
    ELSE IF s[i] = "]"
    THEN [ok |-> TRUE, next |-> i + 1, isDict |-> FALSE, val |-> EmptyOD]
    ELSE LET r == ParseValue(s, i)
         IN  IF r.ok THEN ParseElems(s, SkipWs(s, r.next)) ELSE JsonFail

\* a value starting at s[i]: an object or an array
ParseValue(s, i) ==
    IF i > Len(s) THEN JsonFail
    ELSE IF s[i] = "{" THEN ParseMembers(s, SkipWs(s, i + 1), EmptyOD)
    ELSE IF s[i] = "[" THEN ParseElems(s, SkipWs(s, i + 1))
    ELSE JsonFail

\* json.loads: ok is FALSE where it raises
json_loads(t) ==
    LET r == ParseValue(t, SkipWs(t, 1))
    IN  IF r.ok /\ SkipWs(t, r.next) = Len(t) + 1 THEN r ELSE JsonFail

RECURSIVE DumpMembers(_, _, _)
DumpMembers(d, i, indent) ==
    IF i > Len(d.keys) THEN <<>>
    ELSE LET k == d.keys[i]
             v == d.vals[k]
             member ==
                 IF k \in TextKeys
                 THEN <<TextKeyToken(k), Quote>>
                      \o [n \in 1..Len(v) |-> EscapeChar(v[n])]
                      \o <<Quote>>
                 ELSE <<TokenOf(k, v)>>
         IN  (IF indent THEN <<"\n">> ELSE <<>>) \o member
             \o DumpMembers(d, i + 1, indent)

\* json.dumps(d) and json.dumps(d, indent=2)
json_dumps(d, indent) ==
    <<"{">> \o DumpMembers(d, 1, indent)
    \o (IF indent /\ d.keys # <<>> THEN <<"\n">> ELSE <<>>) \o <<"}">>

-----------------------------------------------------------------------------
(* app/agents/matchmaker.py: extract_json *)

\* the three backquotes of a markdown code fence
Fence == "<fence>"

StartsWithFence(t) == t # <<>> /\ t[1] = Fence

\* str.splitlines()
RECURSIVE SplitLines(_)
SplitLines(t) ==
    LET breaks == {j \in 1..Len(t) : t[j] = "\n"}
    IN  IF breaks = {} THEN (IF t = <<>> THEN <<>> ELSE <<t>>)
        ELSE LET j == CHOOSE b \in breaks : \A b2 \in breaks : b <= b2
             IN  <<SubSeq(t, 1, j - 1)>> \o SplitLines(SubSeq(t, j + 1, Len(t)))

\* "\n".join(lines)
RECURSIVE JoinLines(_)
JoinLines(lines) ==
    IF lines = <<>> THEN <<>>
    ELSE IF Len(lines) = 1 THEN lines[1]
    ELSE lines[1] \o <<"\n">> \o JoinLines(Tail(lines))

\* the text with its markdown code fences removed
StripFences(t) ==
    IF StartsWithFence(t)
    THEN LET lines0 == SplitLines(t)
             lines1 == IF lines0 # <<>> THEN Tail(lines0) ELSE lines0
             lines2 == IF lines1 # <<>>
                          /\ StartsWithFence(Strip(lines1[Len(lines1)]))
                       THEN SubSeq(lines1, 1, Len(lines1) - 1)
                       ELSE lines1
         IN  Strip(JoinLines(lines2))
    ELSE t

\* str.find / str.rfind of one character: 0 where Python gives -1
Find(t, c) ==
    LET at == {j \in 1..Len(t) : t[j] = c}
    IN  IF at = {} THEN 0 ELSE CHOOSE j \in at : \A j2 \in at : j <= j2

RFind(t, c) ==
    LET at == {j \in 1..Len(t) : t[j] = c}
    IN  IF at = {} THEN 0 ELSE CHOOSE j \in at : \A j2 \in at : j >= j2

\* the first {...} block of t, or t
FirstBlock(t) ==
    LET start == Find(t, "{")
        end == RFind(t, "}")
    IN  IF start # 0 /\ end # 0 /\ end > start THEN SubSeq(t, start, end)
        ELSE t

\* extract_json
extract_json(text) == json_loads(FirstBlock(StripFences(Strip(text))))

-----------------------------------------------------------------------------
(* app/users.py *)

UserIds == {"user_001", "user_002", "user_003"}

\* user["display_name"]
DisplayName(user_id) ==
    CASE user_id = "user_001" -> "Jordan"
      [] user_id = "user_002" -> "Alex"
      [] user_id = "user_003" -> "Sam"

Agents == UserIds \cup {"evaluator"}

\* the values of time.time()
MaxTime == 2

Times == 1..MaxTime

-----------------------------------------------------------------------------
(* app/agents/matchmaker.py: MatchmakerAgent.run_intake_summary *)

ThesisMax == 240

\* the number of characters a token stands for
CharWidth(c) ==
    CASE c = Fence -> 3
      [] c = "Intake summary" -> 14
      [] c \in PairTokens \cup TextKeyTokens -> 20
      [] OTHER -> 1

\* the number of characters of the first m tokens of s
RECURSIVE SumWidths(_, _, _)
SumWidths(s, m, ws) ==
    IF ws = {} THEN 0
    ELSE LET w == CHOOSE x \in ws : TRUE
         IN  w * Cardinality({i \in 1..m : CharWidth(s[i]) = w})
             + SumWidths(s, m, ws \ {w})

TextWidth(s, m) == SumWidths(s, m, {CharWidth(s[i]) : i \in 1..m})

\* the greatest m in lo..hi such that the first m tokens of s fit in n
\* characters (the first lo do)
RECURSIVE CutSearch(_, _, _, _)
CutSearch(s, n, lo, hi) ==
    IF lo >= hi THEN lo
    ELSE LET mid == (lo + hi + 1) \div 2
         IN  IF TextWidth(s, mid) <= n THEN CutSearch(s, n, mid, hi)
             ELSE CutSearch(s, n, lo, mid - 1)

\* s[:n], n counted in characters; a piece of a cut token is other text
CutChars(s, n) ==
    LET whole == CutSearch(s, n, 0, Len(s))
        part == IF whole < Len(s) THEN n - TextWidth(s, whole) ELSE 0
    IN  SubSeq(s, 1, whole) \o [j \in 1..part |-> "x"]

\* the summary of the except branch
IntakeFallback(response_text) ==
    ODSet(ODSet(ODSet(EmptyOD,
        "preferences", <<"Unable to parse preferences">>),
        "dealbreakers", <<"Unable to parse dealbreakers">>),
        "dating_thesis", CutChars(Strip(response_text), ThesisMax))

\* a summary whose fallback cuts the response before it strips it
intake_summary_CutFirst(response_text) ==
    LET r == extract_json(response_text)
    IN  IF r.ok /\ r.isDict
        THEN setdefault(setdefault(setdefault(r.val,
                 "preferences", <<>>), "dealbreakers", <<>>),
                 "dating_thesis", <<>>)
        ELSE ODSet(IntakeFallback(response_text), "dating_thesis",
                   Strip(CutChars(response_text, ThesisMax)))

\* the summary run_intake_summary makes of the client's response
intake_summary(response_text) ==
    LET r == extract_json(response_text)
    IN  IF r.ok /\ r.isDict
        THEN setdefault(setdefault(setdefault(r.val,
                 "preferences", <<>>), "dealbreakers", <<>>),
                 "dating_thesis", <<>>)
        ELSE IntakeFallback(response_text)

\* the memory entry run_intake_summary writes
IntakeEntryText(user_id, summary) ==
    <<"Intake summary", " for ", DisplayName(user_id), ": ">>
    \o json_dumps(summary, FALSE)

IntakeEntryMeta(user_id, ts) ==
    [type |-> "intake_summary", user_id |-> user_id, timestamp |-> ts]

-----------------------------------------------------------------------------
(* app/agents/evaluator.py: NeutralEvaluatorAgent.score_date_exchange *)

ScoreFailed ==
    ODSet(ODSet(ODSet(ODSet(ODSet(EmptyOD,
        "score_a", 5), "score_b", 5), "compatibility", 50),
        "reasons", <<"Scoring failed - unable to parse LLM response">>),
        "quote", <<>>)

\* a scoring that gives the defaults to every key
score_date_exchange_Overwrite(response) ==
    LET r == extract_json(response)
    IN  IF r.ok /\ r.isDict
        THEN ODSet(ODSet(ODSet(ODSet(ODSet(r.val,
                 "score_a", 5), "score_b", 5), "compatibility", 50),
                 "reasons", <<"Unable to parse reasons">>), "quote", <<>>)
        ELSE ScoreFailed

\* the score score_date_exchange makes of the client's response
score_date_exchange(response) ==
    LET r == extract_json(response)
    IN  IF r.ok /\ r.isDict
        THEN setdefault(setdefault(setdefault(setdefault(setdefault(r.val,
                 "score_a", 5), "score_b", 5), "compatibility", 50),
                 "reasons", <<"Unable to parse reasons">>), "quote", <<>>)
        ELSE ScoreFailed

-----------------------------------------------------------------------------
(* One call of run_intake_summary or of score_date_exchange: the coroutine  *)
(* waits for the client (pc = "await"), which returns a text or raises.     *)

MaxRespLen == 3

JsonChars == {"{", "}", "[", "]", " ", "\n", Fence, "x"}

IntakeChars == JsonChars \cup {"P", "T"}

ScoreChars == JsonChars \cup {"SA", "SB", "CO", "RE", "QU"}

Pad(n) == [j \in 1..n |-> "x"]

\* the responses of the client: the short ones, and long ones around the
\* length at which the fallback thesis is cut
IntakeResponses ==
    SeqsUpTo(IntakeChars, MaxRespLen)
    \cup {h \o Pad(n) : h \in SeqsUpTo({" ", "x", "P"}, 2),
                        n \in {ThesisMax - 1, ThesisMax}}
    \cup {<<Fence, "x", "\n", "{", "P", "D", "T", "}", "\n", Fence>>,
          <<Fence, "\n", "{", "P", "}", " ">>,
          <<"x", " ", "{", "T:", Quote, "x", Quote, "}", " ", "x">>,
          <<"{", "D", "T:", Quote, "x", "\n", Quote, "}">>,
          <<"[", "{", "P", "}", "]">>,
          <<"x", Quote, "\n", "{", Quote, " ">>}

ScoreResponses ==
    SeqsUpTo(ScoreChars, MaxRespLen)
    \cup {<<Fence, "x", "\n", "{", "SA", "SB", "CO", "RE", "QU", "}", "\n", Fence>>,
          <<"x", " ", "{", "SA5", "QU:", Quote, "x", Quote, "}", " ", "x">>,
          <<"{", "RE?", "CO50", "}">>,
          <<"{", "RE!", "}">>,
          <<"[", "{", "SA", "}", "]">>,
          <<Fence, "{", "SA", "}", Fence>>}

LlmUsers == {"user_001", "user_002"}

NoMemory == [a \in Agents |-> <<>>]

LlmCallIdle ==
    /\ llm = [pc |-> "idle"]
    /\ llmRet = EmptyOD

LlmIdle ==
    /\ memory = NoMemory
    /\ LlmCallIdle

\* the memory of user_001 may hold an earlier intake summary
LlmInit ==
    /\ llm = [pc |-> "idle"]
    /\ llmRet = EmptyOD
    /\ \/ memory = NoMemory
       \/ memory = [NoMemory EXCEPT !["user_001"] =
              write(<<>>, IntakeEntryText("user_001", intake_summary(<<"{", "P", "}">>)),
                    Some(IntakeEntryMeta("user_001", 1)))]

\* agent.run_intake_summary(client) up to its await
run_intake_summary_Call(user_id) ==
    /\ UNCHANGED llmOthers
    /\ llm.pc = "idle"
    /\ llm' = [pc |-> "await", fn |-> "run_intake_summary", user_id |-> user_id]
    /\ UNCHANGED <<memory, llmRet>>

\* the client returns response_text: the rest of run_intake_summary
run_intake_summary_Return ==
    /\ UNCHANGED llmOthers
    /\ llm.pc = "await"
    /\ llm.fn = "run_intake_summary"
    /\ \E response_text \in IntakeResponses, ts \in {1, MaxTime} :
         LET summary == intake_summary(response_text)
         IN  /\ memory' = [memory EXCEPT ![llm.user_id] =
                    write(@, IntakeEntryText(llm.user_id, summary),
                          Some(IntakeEntryMeta(llm.user_id, ts)))]
             /\ llmRet' = summary
             /\ llm' = [pc |-> "returned", fn |-> llm.fn,
                        user_id |-> llm.user_id, response |-> response_text]

\* the client raises: run_intake_summary raises
run_intake_summary_Raise ==
    /\ UNCHANGED llmOthers
    /\ llm.pc = "await"
    /\ llm.fn = "run_intake_summary"
    /\ llm' = [pc |-> "raised", fn |-> llm.fn, user_id |-> llm.user_id]
    /\ UNCHANGED <<memory, llmRet>>

\* evaluator.score_date_exchange(...) up to its await
score_date_exchange_Call ==
    /\ UNCHANGED llmOthers
    /\ llm.pc = "idle"
    /\ llm' = [pc |-> "await", fn |-> "score_date_exchange"]
    /\ UNCHANGED <<memory, llmRet>>

\* the client returns response: the rest of score_date_exchange
score_date_exchange_Return ==
    /\ UNCHANGED llmOthers
    /\ llm.pc = "await"
    /\ llm.fn = "score_date_exchange"
    /\ \E response \in ScoreResponses :
         /\ llmRet' = score_date_exchange(response)
         /\ llm' = [pc |-> "returned", fn |-> llm.fn, response |-> response]
    /\ UNCHANGED memory

\* the client raises: score_date_exchange raises (the call is outside its try)
score_date_exchange_Raise ==
    /\ UNCHANGED llmOthers
    /\ llm.pc = "await"
    /\ llm.fn = "score_date_exchange"
    /\ llm' = [pc |-> "raised", fn |-> llm.fn]
    /\ UNCHANGED <<memory, llmRet>>

LlmNext ==
    \/ \E user_id \in LlmUsers : run_intake_summary_Call(user_id)
    \/ run_intake_summary_Return
    \/ run_intake_summary_Raise
    \/ score_date_exchange_Call
    \/ score_date_exchange_Return
    \/ score_date_exchange_Raise

-----------------------------------------------------------------------------
(* app/intake_live.py *)

first_question == <<"q1">>

_FALLBACK_QUESTIONS == << <<"f1">>, <<"f2">>, <<"f3">>, <<"f4">> >>

\* the step_index at which a session is finalized
TotalQuestions == 5

\* the values of uuid4()
SessionIds == {"s1", "s2"}

\* the users sessions are started for: "ghost" is no demo user
SessionUsers == {"user_001", "ghost"}

Answers == {<<"a1">>}

\* what the client returns for the next question
QuestionResponses == {<<" ">>, <<" ", "x", "\n">>}

\* what the client returns for the final summary
SummaryResponses == {<<"{", "P", "}">>, <<"x">>}

\* registry.get_matchmaker: the agent of a demo user, None for another id
get_matchmaker(user_id) == IF user_id \in UserIds THEN Some(user_id) ELSE None

\* dict.get on the session store
GetSession(session_id) ==
    IF session_id \in DOMAIN _sessions THEN Some(_sessions[session_id]) ELSE None

\* the memory entry submit_answer writes for a question and its answer
QAEntryText(question, answer_text) ==
    <<"Q: ">> \o question \o <<"\n", "A: ">> \o answer_text

QAEntryMeta(session_id, step_index, ts) ==
    [type |-> "intake_live", session_id |-> session_id,
     step_index |-> step_index, timestamp |-> ts]

QLabels == <<"Q1: ", "Q2: ", "Q3: ", "Q4: ", "Q5: ">>

ALabels == <<"A1: ", "A2: ", "A3: ", "A4: ", "A5: ">>

\* a pairing of question i with the answer after it
RECURSIVE QAPairs_Shifted(_, _, _)
QAPairs_Shifted(questions, answers, i) ==
    IF i > Min(Len(questions), Len(answers)) THEN <<>>
    ELSE (IF i > 1 THEN <<"\n", "\n">> ELSE <<>>)
         \o <<QLabels[i]>> \o questions[i]
         \o <<"\n", ALabels[i]>> \o answers[Min(i + 1, Len(answers))]
         \o QAPairs_Shifted(questions, answers, i + 1)

\* "\n\n".join of the "Qi: q\nAi: a" pairs of zip(questions, answers)
RECURSIVE QAPairs(_, _, _)
QAPairs(questions, answers, i) ==
    IF i > Min(Len(questions), Len(answers)) THEN <<>>
    ELSE (IF i > 1 THEN <<"\n", "\n">> ELSE <<>>)
         \o <<QLabels[i]>> \o questions[i]
         \o <<"\n", ALabels[i]>> \o answers[i]
         \o QAPairs(questions, answers, i + 1)

\* the final summary of a session whose user has no agent
NoAgentSummary ==
    ODSet(ODSet(ODSet(EmptyOD,
        "preferences", <<>>), "dealbreakers", <<>>),
        "dating_thesis", <<"No agent available for this user.">>)

\* a fallback that takes the question after the one meant
_generate_next_question_Shifted(response, step_index) ==
    LET q == IF response = None THEN <<>> ELSE Strip(response[1])
        fallback_idx == Max(0, Min(step_index, Len(_FALLBACK_QUESTIONS) - 1))
    IN  IF q # <<>> THEN q ELSE _FALLBACK_QUESTIONS[fallback_idx + 1]

\* _generate_next_question from the client's answer on: response is None
\* where the client raised
_generate_next_question(response, step_index) ==
    LET q == IF response = None THEN <<>> ELSE Strip(response[1])
        fallback_idx == Max(0, Min(step_index - 1, Len(_FALLBACK_QUESTIONS) - 1))
    IN  IF q # <<>> THEN q ELSE _FALLBACK_QUESTIONS[fallback_idx + 1]

\* submit_answer that raises for an unknown session only
submit_answer_RejectsUnknown(found) == found = None

\* submit_answer raises ValueError: no such session, or a complete one
submit_answer_Rejects(found) == found = None \/ found[1].is_complete

\* a finalization one answer early
completed_Early(step_index) == step_index >= TotalQuestions - 1

\* the session has had all its answers
completed(step_index) == step_index >= TotalQuestions

NoCall == [pc |-> "idle"]

\* the requests that may run at the same time
CallIds == {"c1", "c2"}

\* the answers all sessions have stored, at most MaxAnswers
MaxAnswers == 6

RECURSIVE SumAnswers(_)
SumAnswers(sids) ==
    IF sids = {} THEN 0
    ELSE LET sid == CHOOSE x \in sids : TRUE
         IN  Len(_sessions[sid].answers) + SumAnswers(sids \ {sid})

AnswersStored == SumAnswers(DOMAIN _sessions)

Raised(error) == [pc |-> "raised", error |-> error]

Returned(ret) == [pc |-> "returned", ret |-> ret]

AwaitPcs == {"await_question", "await_summary"}

IntakeIdle ==
    /\ _sessions = EmptyDict
    /\ inflight = [call \in CallIds |-> NoCall]
    /\ configured = TRUE
    /\ live = [sid \in SessionIds |-> NoCall]
    /\ accepted = [sid \in SessionIds |-> 0]
    /\ intakeRet = NoCall
    /\ now = 1

\* the module as imported, in a process with or without the two variables;
\* the clock is too coarse to move during the requests
IntakeInit ==
    /\ _sessions = EmptyDict
    /\ inflight = [call \in CallIds |-> NoCall]
    /\ configured \in BOOLEAN
    /\ live = [sid \in SessionIds |-> NoCall]
    /\ accepted = [sid \in SessionIds |-> 0]
    /\ intakeRet = NoCall
    /\ now \in Times
    /\ memory = NoMemory

start_session(user_id) ==
    /\ UNCHANGED intakeOthers
    /\ \E session_id \in SessionIds \ DOMAIN _sessions :
         /\ _sessions' =
              [sid \in DOMAIN _sessions \cup {session_id} |->
                 IF sid = session_id
                 THEN [session_id |-> session_id, user_id |-> user_id,
                       step_index |-> 0, questions |-> <<first_question>>,
                       answers |-> <<>>, created_at |-> now,
                       is_complete |-> FALSE]
                 ELSE _sessions[sid]]
         /\ intakeRet' = Returned([session_id |-> session_id,
                                   question |-> first_question,
                                   step_index |-> 0])
    /\ UNCHANGED <<configured, live, accepted, now, memory>>

\* submit_answer(session_id, answer_text) up to its first await, its return
\* or its raise: the sessions and the memories it leaves, and where it stands
submit_answer_ToAwait(session_id, answer_text) ==
    LET found == GetSession(session_id)
    IN  IF submit_answer_Rejects(found)
        THEN [_sessions |-> _sessions, memory |-> memory,
              out |-> Raised("ValueError")]
        ELSE LET s0 == found[1]
                 s1 == [s0 EXCEPT !.answers = Append(@, answer_text)]
                 agent == get_matchmaker(s0.user_id)
             IN  IF s1.step_index >= Len(s1.questions)
                 THEN \* session["questions"][step_index] is out of range
                      [_sessions |-> [_sessions EXCEPT ![session_id] = s1],
                       memory |-> memory,
                       out |-> Raised("IndexError")]
                 ELSE LET current_question == s1.questions[s1.step_index + 1]
                          s2 == [s1 EXCEPT !.step_index = @ + 1]
                          s3 == [s2 EXCEPT !.is_complete = TRUE]
                          written_memory ==
                              IF agent # None
                              THEN [memory EXCEPT ![agent[1]] =
                                      write(@, QAEntryText(current_question, answer_text),
                                            Some(QAEntryMeta(session_id, s1.step_index, now)))]
                              ELSE memory
                      IN  IF completed(s2.step_index)
                          THEN [_sessions |-> [_sessions EXCEPT ![session_id] = s3],
                                memory |-> written_memory,
                                out |->
                                  IF agent = None
                                  THEN Returned([session_id |-> session_id,
                                                 question |-> None,
                                                 step_index |-> s3.step_index,
                                                 is_complete |-> TRUE,
                                                 final_summary |-> Some(NoAgentSummary)])
                                  ELSE IF ~configured THEN Raised("KeyError")
                                  ELSE [pc |-> "await_summary",
                                        agent |-> agent[1],
                                        extra_context |->
                                            QAPairs(s3.questions, s3.answers, 1)]]
                          ELSE [_sessions |-> [_sessions EXCEPT ![session_id] = s2],
                                memory |-> written_memory,
                                out |->
                                  IF ~configured THEN Raised("KeyError")
                                  ELSE [pc |-> "await_question",
                                        step_index |-> s2.step_index]]

\* a call of submit_answer on a session without a call in flight
submit_answer_Call(session_id, answer_text) ==
    /\ UNCHANGED intakeOthers
    /\ live[session_id].pc \notin AwaitPcs
    /\ AnswersStored < MaxAnswers
    /\ LET step == submit_answer_ToAwait(session_id, answer_text)
       IN  /\ _sessions' = step._sessions
           /\ memory' = step.memory
           /\ live' = [live EXCEPT ![session_id] = step.out]
    /\ accepted' = [accepted EXCEPT ![session_id] =
                      IF live'[session_id].pc = "returned" THEN @ + 1 ELSE @]
    /\ intakeRet' = NoCall
    /\ UNCHANGED <<configured, now>>

\* the client answers the next-question call, or raises: the rest of
\* _generate_next_question and of submit_answer; the outcome keeps what the
\* client answered (None where it raised)
submit_answer_Question(session_id) ==
    /\ UNCHANGED intakeOthers
    /\ live[session_id].pc = "await_question"
    /\ \E response \in {None} \cup {Some(r) : r \in QuestionResponses} :
         LET next_question ==
                 _generate_next_question(response, live[session_id].step_index)
         IN  /\ _sessions' = [_sessions EXCEPT ![session_id].questions =
                                 Append(@, next_question)]
             /\ live' = [live EXCEPT ![session_id] =
                  [pc |-> "returned",
                   ret |-> [session_id |-> session_id,
                            question |-> Some(next_question),
                            step_index |-> _sessions[session_id].step_index,
                            is_complete |-> FALSE,
                            final_summary |-> None],
                   response |-> response]]
    /\ accepted' = [accepted EXCEPT ![session_id] = @ + 1]
    /\ intakeRet' = NoCall
    /\ UNCHANGED <<configured, now, memory>>

\* the client answers the summary call: the rest of run_intake_summary and
\* of submit_answer
submit_answer_Summary(session_id) ==
    /\ UNCHANGED intakeOthers
    /\ live[session_id].pc = "await_summary"
    /\ \E response_text \in SummaryResponses :
         LET agent == live[session_id].agent
             final_summary == intake_summary(response_text)
         IN  /\ memory' = [memory EXCEPT ![agent] =
                    write(@, IntakeEntryText(agent, final_summary),
                          Some(IntakeEntryMeta(agent, now)))]
             /\ live' = [live EXCEPT ![session_id] =
                  Returned([session_id |-> session_id,
                            question |-> None,
                            step_index |-> _sessions[session_id].step_index,
                            is_complete |-> TRUE,
                            final_summary |-> Some(final_summary)])]
    /\ accepted' = [accepted EXCEPT ![session_id] = @ + 1]
    /\ intakeRet' = NoCall
    /\ UNCHANGED <<_sessions, configured, now>>

\* the client raises in the summary call: run_intake_summary and
\* submit_answer raise
submit_answer_SummaryRaise(session_id) ==
    /\ UNCHANGED intakeOthers
    /\ live[session_id].pc = "await_summary"
    /\ live' = [live EXCEPT ![session_id] = Raised("HTTPError")]
    /\ intakeRet' = NoCall
    /\ UNCHANGED <<_sessions, configured, accepted, now, memory>>

get_status(session_id) ==
    /\ UNCHANGED intakeOthers
    /\ LET found == GetSession(session_id)
       IN  intakeRet' =
             IF found = None THEN Raised("ValueError")
             ELSE Returned([session_id |-> found[1].session_id,
                            user_id |-> found[1].user_id,
                            step_index |-> found[1].step_index,
                            total_questions |-> TotalQuestions,
                            questions_answered |-> Len(found[1].answers),
                            is_complete |-> found[1].is_complete,
                            created_at |-> found[1].created_at])
    /\ UNCHANGED <<_sessions, configured, live, accepted, now, memory>>

\* one user answers one session, each call made after the one before it has
\* returned or raised
SeqAnswers == {<<"a1">>, <<"a2">>}

IntakeSeqInit ==
    /\ _sessions = EmptyDict
    /\ inflight = [call \in CallIds |-> NoCall]
    /\ configured = TRUE
    /\ live = [sid \in SessionIds |-> NoCall]
    /\ accepted = [sid \in SessionIds |-> 0]
    /\ intakeRet = NoCall
    /\ now = 1
    /\ memory = NoMemory

start_one_session ==
    /\ _sessions = EmptyDict
    /\ start_session("user_001")

IntakeSeqNext ==
    \/ start_one_session
    \/ \E session_id \in SessionIds, answer_text \in SeqAnswers :
          submit_answer_Call(session_id, answer_text)
    \/ \E session_id \in SessionIds : submit_answer_Question(session_id)
    \/ \E session_id \in SessionIds : submit_answer_Summary(session_id)
    \/ \E session_id \in SessionIds : submit_answer_SummaryRaise(session_id)

\* requests on one session that interleave at their awaits
IntakeConcurrentInit ==
    /\ _sessions = EmptyDict
    /\ inflight = [call \in CallIds |-> NoCall]
    /\ configured = TRUE
    /\ live = [sid \in SessionIds |-> NoCall]
    /\ accepted = [sid \in SessionIds |-> 0]
    /\ intakeRet = NoCall
    /\ now = 1
    /\ memory = NoMemory

\* a request calls submit_answer while others may be awaiting
submit_answer_CallAt(call, session_id, answer_text) ==
    /\ UNCHANGED concurrentOthers
    /\ inflight[call].pc = "idle"
    /\ AnswersStored < MaxAnswers
    /\ LET step == submit_answer_ToAwait(session_id, answer_text)
       IN  /\ _sessions' = step._sessions
           /\ memory' = step.memory
           /\ inflight' = [inflight EXCEPT ![call] =
                IF step.out.pc = "await_question"
                THEN [pc |-> "await_question", session_id |-> session_id,
                      step_index |-> step.out.step_index]
                ELSE IF step.out.pc = "await_summary"
                THEN [pc |-> "await_summary", session_id |-> session_id,
                      agent |-> step.out.agent]
                ELSE NoCall]
    /\ intakeRet' = NoCall
    /\ UNCHANGED <<configured, now>>

\* the client answers the next-question call of a request, or raises
submit_answer_QuestionAt(call) ==
    /\ UNCHANGED concurrentOthers
    /\ inflight[call].pc = "await_question"
    /\ \E response \in {None} \cup {Some(r) : r \in QuestionResponses} :
         LET next_question ==
                 _generate_next_question(response, inflight[call].step_index)
         IN  _sessions' = [_sessions EXCEPT ![inflight[call].session_id].questions =
                              Append(@, next_question)]
    /\ inflight' = [inflight EXCEPT ![call] = NoCall]
    /\ intakeRet' = NoCall
    /\ UNCHANGED <<configured, now, memory>>

\* the client answers the summary call of a request
submit_answer_SummaryAt(call) ==
    /\ UNCHANGED concurrentOthers
    /\ inflight[call].pc = "await_summary"
    /\ \E response_text \in SummaryResponses :
         LET agent == inflight[call].agent
         IN  memory' = [memory EXCEPT ![agent] =
                 write(@, IntakeEntryText(agent, intake_summary(response_text)),
                       Some(IntakeEntryMeta(agent, now)))]
    /\ inflight' = [inflight EXCEPT ![call] = NoCall]
    /\ intakeRet' = NoCall
    /\ UNCHANGED <<_sessions, configured, now>>

\* the client raises in the summary call of a request
submit_answer_SummaryRaiseAt(call) ==
    /\ UNCHANGED concurrentOthers
    /\ inflight[call].pc = "await_summary"
    /\ inflight' = [inflight EXCEPT ![call] = NoCall]
    /\ intakeRet' = NoCall
    /\ UNCHANGED <<_sessions, configured, now, memory>>

IntakeConcurrentNext ==
    \/ start_one_session
    \/ \E call \in CallIds, session_id \in SessionIds, answer_text \in Answers :
          submit_answer_CallAt(call, session_id, answer_text)
    \/ \E call \in CallIds : submit_answer_QuestionAt(call)
    \/ \E call \in CallIds : submit_answer_SummaryAt(call)
    \/ \E call \in CallIds : submit_answer_SummaryRaiseAt(call)
    \/ \E session_id \in SessionIds : get_status(session_id)

IntakeNext ==
    \/ \E user_id \in SessionUsers : start_session(user_id)
    \/ \E session_id \in SessionIds, answer_text \in Answers :
          submit_answer_Call(session_id, answer_text)
    \/ \E session_id \in SessionIds : submit_answer_Question(session_id)
    \/ \E session_id \in SessionIds : submit_answer_Summary(session_id)
    \/ \E session_id \in SessionIds : submit_answer_SummaryRaise(session_id)
    \/ \E session_id \in SessionIds : get_status(session_id)

-----------------------------------------------------------------------------
(* app/agents/evaluator.py: NeutralEvaluatorAgent.run_date_exchange *)

\* range(6): the turns of the conversation
Turns == 6

\* [:3]: the evaluator notes kept
MaxNotes == 3

\* memory.search("Intake summary", k=5)
SearchK == 5

\* the summary of an agent without a usable intake summary
NoIntakeSummary ==
    ODSet(ODSet(ODSet(EmptyOD,
        "preferences", <<"No intake summary available">>),
        "dealbreakers", <<"No intake summary available">>),
        "dating_thesis", <<"No intake summary available">>)

\* an _extract_intake_summary without its try: what json.loads made of the
\* block is returned whether or not it parsed
_extract_intake_summary_NoTry(agent, entries) ==
    IF agent = None THEN NoIntakeSummary
    ELSE LET results == search(entries, <<"Intake summary">>, SearchK)
         IN  IF results = <<>> THEN NoIntakeSummary
             ELSE LET text == results[Len(results)].text
                      start == Find(text, "{")
                      end == RFind(text, "}")
                  IN  IF start # 0 /\ end # 0 /\ end > start
                      THEN json_loads(SubSeq(text, start, end)).val
                      ELSE NoIntakeSummary

\* _extract_intake_summary of an agent (None, or <<its user id>>) whose
\* memory holds entries
_extract_intake_summary(agent, entries) ==
    IF agent = None THEN NoIntakeSummary
    ELSE LET results == search(entries, <<"Intake summary">>, SearchK)
         IN  IF results = <<>> THEN NoIntakeSummary
             ELSE LET text == results[Len(results)].text
                      start == Find(text, "{")
                      end == RFind(text, "}")
                  IN  IF start # 0 /\ end # 0 /\ end > start
                         /\ json_loads(SubSeq(text, start, end)).ok
                      THEN json_loads(SubSeq(text, start, end)).val
                      ELSE NoIntakeSummary

\* str.split("\n")
RECURSIVE Split(_)
Split(t) ==
    LET breaks == {j \in 1..Len(t) : t[j] = "\n"}
    IN  IF breaks = {} THEN <<t>>
        ELSE LET j == CHOOSE b \in breaks : \A b2 \in breaks : b <= b2
             IN  <<SubSeq(t, 1, j - 1)>> \o Split(SubSeq(t, j + 1, Len(t)))

\* str.lstrip(chars)
RECURSIVE LStripChars(_, _)
LStripChars(t, chars) ==
    IF t # <<>> /\ t[1] \in chars THEN LStripChars(Tail(t), chars) ELSE t

Bullets == {"*", "-", "bullet"}

\* the evaluator notes made of the client's response
evaluator_notes(notes_response) ==
    LET lines == Split(Strip(notes_response))
        kept == SelectSeq(lines, LAMBDA line :
                    Strip(line) # <<>> /\ Strip(line)[1] # "#")
    IN  Take([i \in 1..Len(kept) |-> Strip(LStripChars(Strip(kept[i]), Bullets))],
             MaxNotes)

\* a speaker who is always A
speaker_label_Same(turn) == "A"

\* the speaker of a turn (0-based)
speaker_label(turn) == IF turn % 2 = 0 THEN "A" ELSE "B"

\* "\n".join of the "name: text" lines of the transcript
RECURSIVE transcript_text(_)
transcript_text(transcript) ==
    IF transcript = <<>> THEN <<>>
    ELSE <<transcript[1].name, ": ">> \o transcript[1].text
         \o (IF Len(transcript) > 1 THEN <<"\n">> ELSE <<>>)
         \o transcript_text(Tail(transcript))

\* "; ".join(evaluator_notes)
RECURSIVE JoinNotes(_)
JoinNotes(notes) ==
    IF notes = <<>> THEN <<>>
    ELSE notes[1] \o (IF Len(notes) > 1 THEN <<"; ">> ELSE <<>>)
         \o JoinNotes(Tail(notes))

\* the memory entries run_date_exchange writes
DeltaEntry(d) ==
    [text |-> <<"Delta insight: ", DisplayName(d.user_a), " x ",
                DisplayName(d.user_b), "\n">> \o d.delta_insight,
     metadata |-> [type |-> "date_delta_insight", user_a_id |-> d.user_a,
                   user_b_id |-> d.user_b, timestamp |-> d.ts]]

DateExchangeEntry(partner, scene, transcript, ts) ==
    [text |-> <<"Date exchange with ", DisplayName(partner), ":", "\n">>
              \o scene \o <<"\n", "\n">> \o transcript_text(transcript),
     metadata |-> [type |-> "date_exchange", partner_user_id |-> partner,
                   timestamp |-> ts]]

DateEvalEntry(d) ==
    [text |-> <<"Date exchange: ", DisplayName(d.user_a), " x ",
                DisplayName(d.user_b), "\n", "Scene: ">> \o d.scene
              \o <<"\n", "Transcript:", "\n">> \o transcript_text(d.transcript)
              \o <<"\n", "Notes: ">> \o JoinNotes(d.evaluator_notes),
     metadata |-> [type |-> "date_exchange_eval", user_a_id |-> d.user_a,
                   user_b_id |-> d.user_b, timestamp |-> d.ts]]

ReflectionEntry(partner, reflection, ts) ==
    [text |-> <<"Matchmaker reflection after date with ",
                DisplayName(partner), ":", "\n">> \o reflection,
     metadata |-> [type |-> "matchmaker_reflection",
                   partner_user_id |-> partner, timestamp |-> ts]]

DateScoreEntry(d, score) ==
    [text |-> <<"Date score: ", DisplayName(d.user_a), " x ",
                DisplayName(d.user_b), "\n">> \o json_dumps(score, TRUE),
     metadata |-> [type |-> "date_score", user_a_id |-> d.user_a,
                   user_b_id |-> d.user_b, timestamp |-> d.ts]]

\* list.append of an entry: Memory.write with its text and metadata
WriteEntry(entries, e) == write(entries, e.text, Some(e.metadata))

\* the memories after run_date_exchange has stored the date d
date_exchange_writes(mem, d) ==
    LET m1 == IF d.delta_insight # <<>>
              THEN [mem EXCEPT !["evaluator"] = WriteEntry(@, DeltaEntry(d))]
              ELSE mem
        m2 == IF d.agent_a # None
              THEN [m1 EXCEPT ![d.agent_a[1]] = WriteEntry(@,
                      DateExchangeEntry(d.user_b, d.scene, d.transcript, d.ts))]
              ELSE m1
        m3 == IF d.agent_b # None
              THEN [m2 EXCEPT ![d.agent_b[1]] = WriteEntry(@,
                      DateExchangeEntry(d.user_a, d.scene, d.transcript, d.ts))]
              ELSE m2
    IN  [m3 EXCEPT !["evaluator"] = WriteEntry(@, DateEvalEntry(d))]

\* a run that asks agent B's reflection before agent A's
NextAwait_BFirst(pc, turn, agent_a, agent_b) ==
    CASE pc = "scene" -> "test_moment"
      [] pc = "test_moment" -> "turn"
      [] pc = "turn" -> IF turn < Turns THEN "turn" ELSE "notes"
      [] pc = "notes" -> "delta"
      [] pc = "delta" -> IF agent_b # None THEN "reflection_b"
                         ELSE IF agent_a # None THEN "reflection_a" ELSE "score"
      [] pc = "reflection_b" -> IF agent_a # None THEN "reflection_a" ELSE "score"
      [] pc = "reflection_a" -> "score"
      [] pc = "score" -> "return"

\* the model call run_date_exchange awaits next, after the call pc has
\* returned (turn: the number of turns made); "return" after the last
NextAwait(pc, turn, agent_a, agent_b) ==
    CASE pc = "scene" -> "test_moment"
      [] pc = "test_moment" -> "turn"
      [] pc = "turn" -> IF turn < Turns THEN "turn" ELSE "notes"
      [] pc = "notes" -> "delta"
      [] pc = "delta" -> IF agent_a # None THEN "reflection_a"
                         ELSE IF agent_b # None THEN "reflection_b" ELSE "score"
      [] pc = "reflection_a" -> IF agent_b # None THEN "reflection_b" ELSE "score"
      [] pc = "reflection_b" -> "score"
      [] pc = "score" -> "return"

\* the call awaited has finished and the next one is issued
Advance(d) ==
    LET next == NextAwait(d.pc, Len(d.transcript), d.agent_a, d.agent_b)
    IN  [d EXCEPT !.pc = IF next = "return" THEN "returned" ELSE next,
                  !.calls = IF next = "return" THEN @ ELSE Append(@, next),
                  !.done = @ + 1]

\* the users of a date, and for each an agent or None
DatePairs == {<<"user_001", "user_002">>, <<"user_002", "user_001">>,
              <<"user_003", "user_003">>}

AgentArgs(user_id) == {None, Some(user_id)}

SceneResponses == {<<" ", "scene", "\n">>}

TestMomentResponses == {<<"[", "oops", "]", " ">>, <<"oops">>}

TurnResponses == {<<"hi", " ">>}

NotesResponses ==
    {<<"-", " ", "n1", "\n", "\n", "#", "n2", "\n", "*", "n3", "\n",
       " ", "bullet", "-", "n4", "\n", "n5">>,
     <<"n1", "\n">>}

DeltaResponses == {<<"delta", "\n">>, <<" ">>}

ReflectionResponses == {<<" ", "reflection">>}

DateScoreResponses == {<<"{", "SA", "CO", "}">>, <<"x">>}

EntriesOf(agent) == IF agent = None THEN <<>> ELSE memory[agent[1]]

DateIdle ==
    /\ date = [pc |-> "idle"]
    /\ dateRet = EmptyDict

\* the memories before the run: empty, or with an intake summary of user_001
DateInit ==
    /\ date = [pc |-> "idle"]
    /\ dateRet = EmptyDict
    /\ \/ memory = NoMemory
       \/ memory = [NoMemory EXCEPT !["user_001"] =
              write(<<>>, IntakeEntryText("user_001", intake_summary(<<"{", "P", "}">>)),
                    Some(IntakeEntryMeta("user_001", 1)))]

\* run_date_exchange up to its first await, the scene call, on the
\* memories mem: the locals of the run
run_date_exchange_Start(user_a, agent_a, user_b, agent_b, mem) ==
    [pc |-> "scene",
     user_a |-> user_a, agent_a |-> agent_a,
     user_b |-> user_b, agent_b |-> agent_b,
     intake_a |-> _extract_intake_summary(agent_a,
                      IF agent_a = None THEN <<>> ELSE mem[agent_a[1]]),
     intake_b |-> _extract_intake_summary(agent_b,
                      IF agent_b = None THEN <<>> ELSE mem[agent_b[1]]),
     scene |-> <<>>, test_moment |-> <<>>, transcript |-> <<>>,
     evaluator_notes |-> <<>>, ts |-> 0, delta_insight |-> <<>>,
     reflection_a |-> <<>>, reflection_b |-> <<>>,
     calls |-> <<"scene">>, done |-> 0]

\* the dict run_date_exchange returns
run_date_exchange_Result(d, score) ==
    [scene |-> d.scene,
     transcript |-> d.transcript,
     evaluator_notes |-> d.evaluator_notes,
     delta_insight |-> d.delta_insight,
     reflections |->
         [u \in {d.user_a, d.user_b} |->
            IF u = d.user_b THEN d.reflection_b ELSE d.reflection_a],
     score |-> score]

\* run_date_exchange from the await d.pc to its next await or its return: the
\* call awaited answered out[1], or raised inside a try (out = None, for the
\* delta-insight and reflection calls only); ts is what time.time() gives.
\* The value holds the locals, the memories and what the run returned.
run_date_exchange_Resume(d, mem, out, ts) ==
    CASE d.pc = "scene" ->
           [d |-> Advance([d EXCEPT !.scene = Strip(out[1])]),
            memory |-> mem, ret |-> EmptyDict]
      [] d.pc = "test_moment" ->
           LET test_moment == Strip(out[1])
           IN  [d |-> Advance([d EXCEPT !.test_moment =
                        IF test_moment # <<>> /\ test_moment[1] = "["
                        THEN test_moment
                        ELSE <<"[">> \o test_moment \o <<"]">>]),
                memory |-> mem, ret |-> EmptyDict]
      [] d.pc = "turn" ->
           LET turn == Len(d.transcript)
               is_user_a == speaker_label(turn) = "A"
               current_user == IF is_user_a THEN d.user_a ELSE d.user_b
           IN  [d |-> Advance([d EXCEPT !.transcript =
                        Append(@, [speaker |-> speaker_label(turn),
                                   name |-> DisplayName(current_user),
                                   text |-> Strip(out[1])])]),
                memory |-> mem, ret |-> EmptyDict]
      [] d.pc = "notes" ->
           [d |-> Advance([d EXCEPT
                     !.evaluator_notes = evaluator_notes(out[1]),
                     !.ts = ts]),
            memory |-> mem, ret |-> EmptyDict]
      [] d.pc = "delta" ->
           LET d2 == [d EXCEPT !.delta_insight =
                         IF out = None THEN <<>> ELSE Strip(out[1])]
           IN  [d |-> Advance(d2), memory |-> date_exchange_writes(mem, d2),
                ret |-> EmptyDict]
      [] d.pc = "reflection_a" ->
           LET reflection == IF out = None THEN <<>> ELSE Strip(out[1])
           IN  [d |-> Advance([d EXCEPT !.reflection_a = reflection]),
                memory |-> IF out = None THEN mem
                           ELSE [mem EXCEPT ![d.agent_a[1]] = WriteEntry(@,
                                   ReflectionEntry(d.user_b, reflection, d.ts))],
                ret |-> EmptyDict]
      [] d.pc = "reflection_b" ->
           LET reflection == IF out = None THEN <<>> ELSE Strip(out[1])
           IN  [d |-> Advance([d EXCEPT !.reflection_b = reflection]),
                memory |-> IF out = None THEN mem
                           ELSE [mem EXCEPT ![d.agent_b[1]] = WriteEntry(@,
                                   ReflectionEntry(d.user_a, reflection, d.ts))],
                ret |-> EmptyDict]
      [] d.pc = "score" ->
           LET score == score_date_exchange(out[1])
           IN  [d |-> Advance(d),
                memory |-> [mem EXCEPT !["evaluator"] =
                              WriteEntry(@, DateScoreEntry(d, score))],
                ret |-> run_date_exchange_Result(d, score)]

\* the calls of run_date_exchange that are made inside a try
TriedCalls == {"delta", "reflection_a", "reflection_b"}

\* evaluator.run_date_exchange(user_a, agent_a, user_b, agent_b, client)
run_date_exchange_Call(user_a, agent_a, user_b, agent_b) ==
    /\ UNCHANGED dateOthers
    /\ date.pc = "idle"
    /\ date' = run_date_exchange_Start(user_a, agent_a, user_b, agent_b, memory)
    /\ UNCHANGED <<dateRet, memory>>

\* the scene call returns
run_date_exchange_Scene ==
    /\ UNCHANGED dateOthers
    /\ date.pc = "scene"
    /\ \E scene \in SceneResponses :
         date' = run_date_exchange_Resume(date, memory, Some(scene), 0).d
    /\ UNCHANGED <<dateRet, memory>>

\* the test-moment call returns
run_date_exchange_TestMoment ==
    /\ UNCHANGED dateOthers
    /\ date.pc = "test_moment"
    /\ \E response \in TestMomentResponses :
         date' = run_date_exchange_Resume(date, memory, Some(response), 0).d
    /\ UNCHANGED <<dateRet, memory>>

\* the call of a dialogue turn returns
run_date_exchange_Turn ==
    /\ UNCHANGED dateOthers
    /\ date.pc = "turn"
    /\ \E response \in TurnResponses :
         date' = run_date_exchange_Resume(date, memory, Some(response), 0).d
    /\ UNCHANGED <<dateRet, memory>>

\* the evaluator-notes call returns; the run reads the clock
run_date_exchange_Notes ==
    /\ UNCHANGED dateOthers
    /\ date.pc = "notes"
    /\ \E notes_response \in NotesResponses, ts \in Times :
         date' = run_date_exchange_Resume(date, memory,
                                         Some(notes_response), ts).d
    /\ UNCHANGED <<dateRet, memory>>

\* the delta-insight call returns or raises (out = None); the run writes the
\* date to the memories
run_date_exchange_Delta ==
    /\ UNCHANGED dateOthers
    /\ date.pc = "delta"
    /\ \E out \in {None} \cup {Some(r) : r \in DeltaResponses} :
         LET step == run_date_exchange_Resume(date, memory, out, 0)
         IN  /\ memory' = step.memory
             /\ date' = step.d
    /\ UNCHANGED dateRet

\* the reflection call for agent A returns or raises
run_date_exchange_ReflectionA ==
    /\ UNCHANGED dateOthers
    /\ date.pc = "reflection_a"
    /\ \E out \in {None} \cup {Some(r) : r \in ReflectionResponses} :
         LET step == run_date_exchange_Resume(date, memory, out, 0)
         IN  /\ memory' = step.memory
             /\ date' = step.d
    /\ UNCHANGED dateRet

\* the reflection call for agent B returns or raises
run_date_exchange_ReflectionB ==
    /\ UNCHANGED dateOthers
    /\ date.pc = "reflection_b"
    /\ \E out \in {None} \cup {Some(r) : r \in ReflectionResponses} :
         LET step == run_date_exchange_Resume(date, memory, out, 0)
         IN  /\ memory' = step.memory
             /\ date' = step.d
    /\ UNCHANGED dateRet

\* the scoring call returns: run_date_exchange returns
run_date_exchange_Score ==
    /\ UNCHANGED dateOthers
    /\ date.pc = "score"
    /\ \E response \in DateScoreResponses :
         LET step == run_date_exchange_Resume(date, memory, Some(response), 0)
         IN  /\ memory' = step.memory
             /\ dateRet' = step.ret
             /\ date' = step.d

\* the scene, test-moment, turn, notes or scoring call raises:
\* run_date_exchange raises
run_date_exchange_Raise ==
    /\ UNCHANGED dateOthers
    /\ date.pc \in {"scene", "test_moment", "turn", "notes", "score"}
    /\ date' = [date EXCEPT !.pc = "raised", !.done = @ + 1]
    /\ UNCHANGED <<dateRet, memory>>

DateNext ==
    \/ \E pair \in DatePairs :
         \E agent_a \in AgentArgs(pair[1]), agent_b \in AgentArgs(pair[2]) :
            run_date_exchange_Call(pair[1], agent_a, pair[2], agent_b)
    \/ run_date_exchange_Scene
    \/ run_date_exchange_TestMoment
    \/ run_date_exchange_Turn
    \/ run_date_exchange_Notes
    \/ run_date_exchange_Delta
    \/ run_date_exchange_ReflectionA
    \/ run_date_exchange_ReflectionB
    \/ run_date_exchange_Score
    \/ run_date_exchange_Raise

-----------------------------------------------------------------------------
(* app/agents/evaluator.py: NeutralEvaluatorAgent._extract_latest_date_exchange *)

MaxExchanges == 3

\* bool(x) of an optional string
Truthy(x) == x # None /\ x[1] # ""

\* collect() that takes the date_exchange entries of every partner
collect_AnyPartner(agent, entries, partner_id) ==
    IF agent = None THEN <<>>
    ELSE LET taken(e) ==
                 /\ DictGet(e.metadata, "type") = Some("date_exchange")
                 /\ e.text # <<>>
             hits == SelectSeq(entries, taken)
         IN  [i \in 1..Len(hits) |->
                [ts |-> IF "timestamp" \in DOMAIN hits[i].metadata
                        THEN hits[i].metadata.timestamp ELSE 0,
                 txt |-> hits[i].text]]

\* collect(agent, partner_id): the (ts, txt) candidates among the agent's
\* entries
collect(agent, entries, partner_id) ==
    IF agent = None THEN <<>>
    ELSE LET taken(e) ==
                 /\ DictGet(e.metadata, "type") = Some("date_exchange")
                 /\ ~(/\ Truthy(DictGet(e.metadata, "partner_user_id"))
                      /\ DictGet(e.metadata, "partner_user_id") # Some(partner_id))
                 /\ e.text # <<>>
             hits == SelectSeq(entries, taken)
         IN  [i \in 1..Len(hits) |->
                [ts |-> IF "timestamp" \in DOMAIN hits[i].metadata
                        THEN hits[i].metadata.timestamp ELSE 0,
                 txt |-> hits[i].text]]

\* list.sort(key=lambda x: x[0]): stable, by insertion from the left
RECURSIVE InsertByTs(_, _)
InsertByTs(sorted, c) ==
    IF sorted = <<>> THEN <<c>>
    ELSE IF sorted[Len(sorted)].ts <= c.ts THEN Append(sorted, c)
    ELSE Append(InsertByTs(SubSeq(sorted, 1, Len(sorted) - 1), c),
                sorted[Len(sorted)])

RECURSIVE SortByTs(_, _)
SortByTs(candidates, sorted) ==
    IF candidates = <<>> THEN sorted
    ELSE SortByTs(Tail(candidates), InsertByTs(sorted, Head(candidates)))

_extract_latest_date_exchange(agent_a, entries_a, agent_b, entries_b, user_a, user_b) ==
    LET candidates == collect(agent_a, entries_a, user_b)
                      \o collect(agent_b, entries_b, user_a)
        sorted == SortByTs(candidates, <<>>)
    IN  IF candidates = <<>> THEN None
        ELSE Some(sorted[Len(sorted)].txt)

\* the dates whose memories the reports read
ExchangePairs ==
    {<<"user_001", "user_002">>, <<"user_002", "user_001">>,
     <<"user_001", "user_003">>}

\* the date_exchange_eval entries of the evaluator: one per date stored
ExchangesStored ==
    Len(SelectSeq(memory["evaluator"],
                  LAMBDA e : e.metadata.type = "date_exchange_eval"))

\* the transcript of a date whose six turns all say "hi"
SomeTranscript(user_a, user_b) ==
    [i \in 1..Turns |->
        [speaker |-> speaker_label(i - 1),
         name |-> DisplayName(IF speaker_label(i - 1) = "A" THEN user_a ELSE user_b),
         text |-> <<"hi">>]]

ReportIdle == latest = [pc |-> "idle"]

ReportInit ==
    /\ latest = [pc |-> "idle"]
    /\ memory = NoMemory

\* a whole run of run_date_exchange for the matchmakers of two users, at
\* time ts, whose model calls all returned; the scene of each run is longer
\* than the scenes before it, so that no two dates have the same text
run_date_exchange_Stored(user_a, user_b) ==
    /\ UNCHANGED reportOthers
    /\ ExchangesStored < MaxExchanges
    /\ \E ts \in Times :
         LET d == [user_a |-> user_a, agent_a |-> Some(user_a),
                   user_b |-> user_b, agent_b |-> Some(user_b),
                   scene |-> [i \in 1..(ExchangesStored + 1) |-> "scene"],
                   transcript |-> SomeTranscript(user_a, user_b),
                   evaluator_notes |-> << <<"n1">> >>, ts |-> ts,
                   delta_insight |-> <<"delta">>]
             m1 == date_exchange_writes(memory, d)
             m2 == [m1 EXCEPT ![user_a] = WriteEntry(@,
                      ReflectionEntry(user_b, <<"reflection">>, ts))]
             m3 == [m2 EXCEPT ![user_b] = WriteEntry(@,
                      ReflectionEntry(user_a, <<"reflection">>, ts))]
         IN  memory' = [m3 EXCEPT !["evaluator"] =
                          WriteEntry(@, DateScoreEntry(d, ScoreFailed))]
    /\ latest' = [pc |-> "idle"]

\* a call of _extract_latest_date_exchange
extract_latest_date_exchange_Call(user_a, agent_a, user_b, agent_b) ==
    /\ UNCHANGED reportOthers
    /\ latest' = [pc |-> "returned",
                  user_a |-> user_a, agent_a |-> agent_a,
                  user_b |-> user_b, agent_b |-> agent_b,
                  ret |-> _extract_latest_date_exchange(
                              agent_a, EntriesOf(agent_a),
                              agent_b, EntriesOf(agent_b), user_a, user_b)]
    /\ UNCHANGED memory

ReportNext ==
    \/ \E pair \in ExchangePairs : run_date_exchange_Stored(pair[1], pair[2])
    \/ \E pair \in ExchangePairs :
         \E agent_a \in AgentArgs(pair[1]), agent_b \in AgentArgs(pair[2]) :
            extract_latest_date_exchange_Call(pair[1], agent_a, pair[2], agent_b)

-----------------------------------------------------------------------------
(* app/registry.py *)

MaxWrites == 2

\* get_demo_users(): the user ids, in order
get_demo_users == <<"user_001", "user_002", "user_003">>

RegistryArgs == UserIds \cup {"ghost"}

\* AgentRegistry(): the objects after __init__ and _initialize (a matchmaker
\* per user, the evaluator, the registry itself), and the registry's index
AgentRegistry(objs) ==
    LET n == Len(objs)
        users == get_demo_users
        agents == [i \in 1..Len(users) |->
                     [kind |-> "MatchmakerAgent", user_id |-> users[i],
                      entries |-> <<>>]]
        registry == [kind |-> "AgentRegistry",
                     _users |-> users,
                     _matchmakers |->
                         [u \in {users[i] : i \in 1..Len(users)} |->
                             n + (CHOOSE i \in 1..Len(users) : users[i] = u)],
                     _evaluator |-> Some(n + Len(users) + 1)]
    IN  [objects |-> objs \o agents
                     \o << [kind |-> "NeutralEvaluatorAgent", entries |-> <<>>],
                           registry >>,
         self |-> n + Len(users) + 2]

\* a get_registry that constructs a registry at every call
get_registry_Fresh(reg, objs) ==
    LET made == AgentRegistry(objs)
    IN  [_registry |-> Some(made.self), objects |-> made.objects,
         ret |-> made.self]

\* get_registry(): the global and the objects after the call, and the
\* registry returned
get_registry(reg, objs) ==
    IF reg = None
    THEN LET made == AgentRegistry(objs)
         IN  [_registry |-> Some(made.self), objects |-> made.objects,
              ret |-> made.self]
    ELSE [_registry |-> reg, objects |-> objs, ret |-> reg[1]]

\* AgentRegistry.list_users
AgentRegistry_list_users(self) == self._users

\* AgentRegistry.get_user
AgentRegistry_get_user(self, user_id) ==
    IF \E i \in 1..Len(self._users) : self._users[i] = user_id
    THEN Some(user_id) ELSE None

\* AgentRegistry.get_matchmaker
AgentRegistry_get_matchmaker(self, user_id) == DictGet(self._matchmakers, user_id)

\* AgentRegistry.get_evaluator: the evaluator returned, or the error raised
AgentRegistry_get_evaluator(self) ==
    IF self._evaluator = None THEN [raised |-> "RuntimeError"]
    ELSE [ret |-> self._evaluator[1]]

Hand(key, obj) == [handed EXCEPT ![key] = @ \cup {obj}]

HandKeys == {"get_registry", "get_evaluator"} \cup UserIds

WritesDone == Len(written["user_001"]) + Len(written["user_002"])
              + Len(written["user_003"])

RegistryIdle ==
    /\ _registry = None
    /\ objects = <<>>
    /\ regRet = [fn |-> "idle"]
    /\ handed = [k \in HandKeys |-> {}]
    /\ written = [u \in UserIds |-> <<>>]

\* the module as imported
RegistryInit ==
    /\ _registry = None
    /\ objects = <<>>
    /\ regRet = [fn |-> "idle"]
    /\ handed = [k \in HandKeys |-> {}]
    /\ written = [u \in UserIds |-> <<>>]

\* get_registry()
registry_get_registry ==
    /\ UNCHANGED registryOthers
    /\ LET r == get_registry(_registry, objects)
       IN  /\ _registry' = r._registry
           /\ objects' = r.objects
           /\ regRet' = [fn |-> "get_registry", ret |-> r.ret]
           /\ handed' = Hand("get_registry", r.ret)
    /\ UNCHANGED written

\* list_users()
registry_list_users ==
    /\ UNCHANGED registryOthers
    /\ LET r == get_registry(_registry, objects)
       IN  /\ _registry' = r._registry
           /\ objects' = r.objects
           /\ regRet' = [fn |-> "list_users",
                         ret |-> AgentRegistry_list_users(r.objects[r.ret])]
    /\ UNCHANGED <<handed, written>>

\* get_user(user_id)
registry_get_user(user_id) ==
    /\ UNCHANGED registryOthers
    /\ LET r == get_registry(_registry, objects)
       IN  /\ _registry' = r._registry
           /\ objects' = r.objects
           /\ regRet' = [fn |-> "get_user", user_id |-> user_id,
                         ret |-> AgentRegistry_get_user(r.objects[r.ret], user_id)]
    /\ UNCHANGED <<handed, written>>

\* get_matchmaker(user_id)
registry_get_matchmaker(user_id) ==
    /\ UNCHANGED registryOthers
    /\ LET r == get_registry(_registry, objects)
           agent == AgentRegistry_get_matchmaker(r.objects[r.ret], user_id)
       IN  /\ _registry' = r._registry
           /\ objects' = r.objects
           /\ regRet' = [fn |-> "get_matchmaker", user_id |-> user_id,
                         ret |-> agent]
           /\ handed' = IF agent = None THEN handed ELSE Hand(user_id, agent[1])
    /\ UNCHANGED written

\* get_evaluator()
registry_get_evaluator ==
    /\ UNCHANGED registryOthers
    /\ LET r == get_registry(_registry, objects)
           evaluator == AgentRegistry_get_evaluator(r.objects[r.ret])
       IN  /\ _registry' = r._registry
           /\ objects' = r.objects
           /\ regRet' = [fn |-> "get_evaluator"] @@ evaluator
           /\ handed' = IF "ret" \in DOMAIN evaluator
                        THEN Hand("get_evaluator", evaluator.ret)
                        ELSE handed
    /\ UNCHANGED written

\* a request writes to the memory of the agent get_matchmaker gives it, as
\* submit_answer does
matchmaker_memory_write(user_id, answer_text) ==
    /\ UNCHANGED registryOthers
    /\ WritesDone < MaxWrites
    /\ LET r == get_registry(_registry, objects)
           agent == AgentRegistry_get_matchmaker(r.objects[r.ret], user_id)
           text == QAEntryText(first_question, answer_text)
           metadata == Some(QAEntryMeta("s1", 0, 1))
       IN  /\ _registry' = r._registry
           /\ objects' = IF agent = None THEN r.objects
                         ELSE [r.objects EXCEPT ![agent[1]].entries =
                                  write(@, text, metadata)]
           /\ regRet' = [fn |-> "memory.write", user_id |-> user_id]
           /\ handed' = IF agent = None THEN handed ELSE Hand(user_id, agent[1])
           /\ written' = IF user_id \in UserIds
                         THEN [written EXCEPT ![user_id] = write(@, text, metadata)]
                         ELSE written

\* a request reads the memory of the agent get_matchmaker gives it, as
\* _agent_has_intake_summary does
matchmaker_memory_all(user_id) ==
    /\ UNCHANGED registryOthers
    /\ LET r == get_registry(_registry, objects)
           agent == AgentRegistry_get_matchmaker(r.objects[r.ret], user_id)
       IN  /\ _registry' = r._registry
           /\ objects' = r.objects
           /\ regRet' = [fn |-> "memory.all", user_id |-> user_id,
                         ret |-> IF agent = None THEN None
                                 ELSE Some(all(r.objects[agent[1]].entries))]
           /\ handed' = IF agent = None THEN handed ELSE Hand(user_id, agent[1])
    /\ UNCHANGED written

RegistryNext ==
    \/ registry_get_registry
    \/ registry_list_users
    \/ \E user_id \in RegistryArgs : registry_get_user(user_id)
    \/ \E user_id \in RegistryArgs : registry_get_matchmaker(user_id)
    \/ registry_get_evaluator
    \/ \E user_id \in RegistryArgs, answer_text \in {<<"a1">>, <<"a2">>} :
         matchmaker_memory_write(user_id, answer_text)
    \/ \E user_id \in RegistryArgs : matchmaker_memory_all(user_id)

-----------------------------------------------------------------------------
(* app/agents/evaluator.py: NeutralEvaluatorAgent._extract_intake_summary,  *)
(* called on a matchmaker whose memory holds entries the program writes     *)

\* the entries of the memory the function is called on
MaxMemory == 6

\* answers of a live intake: one that does not mention an intake summary,
\* one that does, one that also holds a block that is not JSON, and one
\* whose braces are the wrong way round
ExtractAnswers ==
    {<<"a1">>,
     <<"intake SUMMARY">>,
     <<"intake summary", "{", "x", "}">>,
     <<"Intake summary", "}", "{">>}

\* what run_intake_summary and submit_answer write to a matchmaker's memory
ExtractEntries ==
    {[text |-> IntakeEntryText("user_001", intake_summary(<<"{", "P", "}">>)),
      metadata |-> IntakeEntryMeta("user_001", 1)]}
    \cup {[text |-> QAEntryText(first_question, a),
           metadata |-> QAEntryMeta("s1", 0, 1)] : a \in ExtractAnswers}

ExtractIdle == extracted = [pc |-> "idle"]

ExtractInit ==
    /\ ExtractIdle
    /\ \E n \in 0..MaxMemory : \E entries \in [1..n -> ExtractEntries] :
           memory = [NoMemory EXCEPT !["user_001"] = entries]

\* evaluator._extract_intake_summary(agent)
extract_intake_summary_Call(agent) ==
    /\ extracted.pc = "idle"
    /\ extracted' = [pc |-> "returned", agent |-> agent,
                     ret |-> _extract_intake_summary(agent, EntriesOf(agent))]
    /\ UNCHANGED <<memory, extractOthers>>

ExtractNext ==
    \E agent \in AgentArgs("user_001") : extract_intake_summary_Call(agent)

-----------------------------------------------------------------------------
(* app/main.py: the endpoints.  A request is an endpoint call in a slot; it *)
(* advances from one await to the next, and requests in different slots     *)
(* interleave at their awaits.                                              *)

\* the endpoint calls started in a run
MaxRequests == 2

RequestIds == {"r1", "r2"}

\* range(3): the date exchanges of a pipeline
PipelineDates == 3

\* _agent_has_intake_summary of an agent (None, or <<its user id>>) whose
\* memory holds entries
_agent_has_intake_summary(agent, entries) ==
    IF agent = None THEN FALSE
    ELSE IF \E i \in 1..Len(entries) :
               DictGet(entries[i].metadata, "type") = Some("intake_summary")
         THEN TRUE
         ELSE search(entries, <<"Intake summary">>, 1) # <<>>

\* a run_intake_summary that writes to a Memory all matchmakers share
run_intake_summary_Shared(mem, user_id, response_text, ts) ==
    [a \in Agents |->
        IF a \in UserIds
        THEN write(mem[a], IntakeEntryText(user_id, intake_summary(response_text)),
                   Some(IntakeEntryMeta(user_id, ts)))
        ELSE mem[a]]

\* the memories after run_intake_summary of the matchmaker of user_id, whose
\* model call answered response_text: the agent writes to its own Memory
run_intake_summary(mem, user_id, response_text, ts) ==
    [mem EXCEPT ![user_id] =
        write(@, IntakeEntryText(user_id, intake_summary(response_text)),
              Some(IntakeEntryMeta(user_id, ts)))]

\* the memory entries of generate_match_report and generate_pipeline_report
MatchReportEntry(user_a, user_b, report, ts) ==
    [text |-> <<"Match evaluation: ", DisplayName(user_a), " x ",
                DisplayName(user_b), "\n">> \o report,
     metadata |-> [type |-> "match_report", user_a_id |-> user_a,
                   user_b_id |-> user_b, timestamp |-> ts]]

PipelineReportEntry(user_a, user_b, report, ts) ==
    [text |-> <<"Pipeline report: ", DisplayName(user_a), " x ",
                DisplayName(user_b), "\n">> \o Strip(report),
     metadata |-> [type |-> "pipeline_report", user_a_id |-> user_a,
                   user_b_id |-> user_b, timestamp |-> ts]]

\* a pipeline that puts each new result at the front of its list
exchanges_append_Front(exchanges, result) == <<result>> \o exchanges

\* exchanges.append(result)
exchanges_append(exchanges, result) == Append(exchanges, result)

\* a slot that holds no request
NoRequest ==
    [pc |-> "idle", kind |-> "none", user_a |-> "", user_b |-> "",
     d |-> [pc |-> "idle"], exchanges |-> <<>>, started |-> 0, reports |-> 0,
     base |-> 0, response |-> EmptyDict]

\* a request that has returned its response
Responded(req, response) ==
    [req EXCEPT !.pc = "done", !.d = [pc |-> "idle"], !.exchanges = <<>>,
                !.response = response]

\* the endpoint calls evaluator.run_date_exchange, which runs to its first
\* await
CallExchange(req, mem) ==
    [req EXCEPT !.pc = "exchange", !.started = @ + 1,
                !.d = run_date_exchange_Start(req.user_a, Some(req.user_a),
                                              req.user_b, Some(req.user_b), mem)]

\* "if not _agent_has_intake_summary(agent_b): await ..." and what follows
CheckB(req, mem) ==
    IF ~_agent_has_intake_summary(Some(req.user_b), mem[req.user_b])
    THEN [req EXCEPT !.pc = "intake_b"]
    ELSE CallExchange(req, mem)

\* "if not _agent_has_intake_summary(agent_a): await ..." and what follows
CheckA(req, mem) ==
    IF ~_agent_has_intake_summary(Some(req.user_a), mem[req.user_a])
    THEN [req EXCEPT !.pc = "intake_a"]
    ELSE CheckB(req, mem)

\* the users of the requests
ApiUsers == {"user_001", "user_003"}

ApiPairs == {<<"user_001", "user_002">>}

\* what the client answers to the calls of a request
ApiIntakeResponses == {<<"{", "P", "}">>}

ApiReportResponses == {<<" ", "report", "\n">>}

\* the scenes the client describes to a pipeline
ApiScenes == {<<"park">>, <<"cafe">>}

ApiAnswersTo(call, scenes) ==
    CASE call = "scene" -> scenes
      [] call = "test_moment" -> {<<"oops">>}
      [] call = "turn" -> {<<"hi">>}
      [] call = "notes" -> {<<"n1">>}
      [] call = "delta" -> {<<"delta">>}
      [] call \in {"reflection_a", "reflection_b"} -> {<<"reflection">>}
      [] call = "score" -> {<<"{", "SA", "CO", "}">>}

\* what a user answers in a live intake
ApiAnswers == {<<"my", "intake summary">>}

\* the requests that are suspended at an await
Suspended(s) == requests[s].pc \notin {"idle", "done", "failed"}

\* no request and no submit_answer call is suspended
Quiet ==
    /\ \A s \in RequestIds : ~Suspended(s)
    /\ \A call \in CallIds : inflight[call] = NoCall

ApiIdle ==
    /\ requests = [s \in RequestIds |-> NoRequest]
    /\ served = 0

\* a process with its OPENROUTER_* variables set, no session and empty
\* memories
ApiInit ==
    /\ ApiIdle
    /\ IntakeConcurrentInit

\* a request arrives in slot s: the endpoint up to its first await
Arrives(s, kind, user_a, user_b) ==
    /\ ~Suspended(s)
    /\ served < MaxRequests
    /\ served' = served + 1
    /\ LET req == [NoRequest EXCEPT !.kind = kind, !.user_a = user_a,
                                    !.user_b = user_b,
                                    !.base = Len(memory["evaluator"])]
       IN  requests' = [requests EXCEPT ![s] =
               CASE kind = "intake" -> [req EXCEPT !.pc = "intake"]
                 [] kind = "report" -> [req EXCEPT !.pc = "match_report"]
                 [] kind \in {"date", "pipeline"} -> CheckA(req, memory)]
    /\ UNCHANGED <<memory, apiOthers>>

\* POST /api/intake/{user_id}
api_create_intake(s, user_id) == Arrives(s, "intake", user_id, user_id)

\* POST /api/report/{user_a_id}/{user_b_id}
api_generate_report(s, user_a, user_b) == Arrives(s, "report", user_a, user_b)

\* POST /api/date/exchange/{user_a_id}/{user_b_id}
api_run_date_exchange(s, user_a, user_b) == Arrives(s, "date", user_a, user_b)

\* POST /api/pipeline/{user_a_id}/{user_b_id}
api_run_pipeline(s, user_a, user_b) == Arrives(s, "pipeline", user_a, user_b)

\* the model call of run_intake_summary returns: the summary is written and
\* the endpoint goes on to its next await or returns
api_IntakeReturns(s) ==
    /\ requests[s].pc \in {"intake", "intake_a", "intake_b"}
    /\ \E response_text \in ApiIntakeResponses :
         LET req == requests[s]
             user_id == IF req.pc = "intake_b" THEN req.user_b ELSE req.user_a
             mem == run_intake_summary(memory, user_id, response_text, now)
         IN  /\ memory' = mem
             /\ requests' = [requests EXCEPT ![s] =
                   CASE req.pc = "intake" ->
                          Responded(req, [user_id |-> user_id,
                                          summary |-> intake_summary(response_text)])
                     [] req.pc = "intake_a" -> CheckB(req, mem)
                     [] req.pc = "intake_b" -> CallExchange(req, mem)]
    /\ UNCHANGED <<served, apiOthers>>

\* the model call of generate_match_report returns
api_MatchReportReturns(s) ==
    /\ requests[s].pc = "match_report"
    /\ \E report \in ApiReportResponses :
         LET req == requests[s]
         IN  /\ memory' = [memory EXCEPT !["evaluator"] = WriteEntry(@,
                            MatchReportEntry(req.user_a, req.user_b, report, now))]
             /\ requests' = [requests EXCEPT ![s] =
                               Responded(req, [report |-> Strip(report)])]
    /\ UNCHANGED <<served, apiOthers>>

\* a model call of run_date_exchange returns (a scene call with one of
\* scenes): the run goes on to its next await, or returns to the endpoint,
\* which returns the result (date exchange) or appends it and makes its next
\* call (pipeline)
api_ExchangeResumes(s, scenes) ==
    /\ requests[s].pc = "exchange"
    /\ \E answer \in ApiAnswersTo(requests[s].d.pc, scenes) :
         LET req == requests[s]
             step == run_date_exchange_Resume(req.d, memory, Some(answer), now)
             exchanges == exchanges_append(req.exchanges, step.ret)
         IN  /\ memory' = step.memory
             /\ requests' = [requests EXCEPT ![s] =
                   IF step.d.pc # "returned" THEN [req EXCEPT !.d = step.d]
                   ELSE IF req.kind = "date" THEN Responded(req, step.ret)
                   ELSE IF Len(exchanges) < PipelineDates
                   THEN CallExchange([req EXCEPT !.exchanges = exchanges],
                                     step.memory)
                   ELSE [req EXCEPT !.pc = "pipeline_report",
                                    !.d = [pc |-> "idle"],
                                    !.exchanges = exchanges,
                                    !.reports = @ + 1]]
    /\ UNCHANGED <<served, apiOthers>>

\* the model call of generate_pipeline_report returns
api_PipelineReportReturns(s) ==
    /\ requests[s].pc = "pipeline_report"
    /\ \E report \in ApiReportResponses :
         LET req == requests[s]
         IN  /\ memory' = [memory EXCEPT !["evaluator"] = WriteEntry(@,
                            PipelineReportEntry(req.user_a, req.user_b, report, now))]
             /\ requests' = [requests EXCEPT ![s] =
                   Responded(req, [user_a_id |-> req.user_a,
                                   user_b_id |-> req.user_b,
                                   dates |-> req.exchanges,
                                   final_report |-> Strip(report)])]
    /\ UNCHANGED <<served, apiOthers>>

\* the model call awaited raises outside a try: the endpoint raises
api_Raises(s) ==
    /\ Suspended(s)
    /\ requests[s].pc = "exchange" => requests[s].d.pc \notin TriedCalls
    /\ requests' = [requests EXCEPT ![s] =
                      [@ EXCEPT !.pc = "failed", !.d = [pc |-> "idle"],
                                !.exchanges = <<>>]]
    /\ UNCHANGED <<memory, served, apiOthers>>

\* the answers given to live intakes in a run with other requests
MaxLiveAnswers == 1

\* the live-intake endpoints, called while the process serves nothing else;
\* the unchanged slots are part of concurrentOthers
ApiLiveNext ==
    \/ start_one_session
    \/ /\ AnswersStored < MaxLiveAnswers
       /\ \E answer_text \in ApiAnswers :
             submit_answer_CallAt("c1", "s1", answer_text)
    \/ submit_answer_QuestionAt("c1")

\* requests served one at a time
ApiNext ==
    \/ Quiet /\ \E user_id \in ApiUsers : api_create_intake("r1", user_id)
    \/ Quiet /\ \E pair \in ApiPairs : api_generate_report("r1", pair[1], pair[2])
    \/ Quiet /\ \E pair \in ApiPairs : api_run_date_exchange("r1", pair[1], pair[2])
    \/ Quiet /\ \E pair \in ApiPairs : api_run_pipeline("r1", pair[1], pair[2])
    \/ api_IntakeReturns("r1")
    \/ api_MatchReportReturns("r1")
    \/ api_ExchangeResumes("r1", ApiScenes)
    \/ api_PipelineReportReturns("r1")
    \/ api_Raises("r1")
    \/ ~Suspended("r1") /\ ApiLiveNext

\* the model calls of the date runs are answered one request after another:
\* those of slot r2 wait while slot r1 is in its date runs or its report.
\* A request past its intake step neither tests nor writes an intake
\* summary, so the order among these answers does not bear on the intake
\* steps, which interleave freely with each other and with the date runs.
InTurn(s) ==
    s = "r1" \/ requests["r1"].pc \notin {"exchange", "pipeline_report"}

\* date-exchange and pipeline requests that interleave at their awaits
ApiConcurrentNext ==
    \/ \E s \in RequestIds, pair \in ApiPairs :
          api_run_date_exchange(s, pair[1], pair[2])
    \/ \E s \in RequestIds, pair \in ApiPairs :
          api_run_pipeline(s, pair[1], pair[2])
    \/ \E s \in RequestIds : api_IntakeReturns(s)
    \/ \E s \in RequestIds : InTurn(s) /\ api_ExchangeResumes(s, {<<"park">>})
    \/ \E s \in RequestIds : InTurn(s) /\ api_PipelineReportReturns(s)

-----------------------------------------------------------------------------
(* The specifications: one per part of the program *)

InitMem ==
    MemInit /\ LlmIdle /\ IntakeIdle /\ DateIdle /\ ReportIdle /\ RegistryIdle
    /\ ExtractIdle /\ ApiIdle

SpecMem == InitMem /\ [][MemNext]_vars

InitLlm ==
    LlmInit /\ MemIdle /\ IntakeIdle /\ DateIdle /\ ReportIdle /\ RegistryIdle
    /\ ExtractIdle /\ ApiIdle

SpecLlm == InitLlm /\ [][LlmNext]_vars

InitIntake ==
    IntakeInit /\ MemIdle /\ LlmCallIdle /\ DateIdle /\ ReportIdle /\ RegistryIdle
    /\ ExtractIdle /\ ApiIdle

SpecIntake == InitIntake /\ [][IntakeNext]_vars

InitIntakeSeq ==
    IntakeSeqInit /\ MemIdle /\ LlmCallIdle /\ DateIdle /\ ReportIdle /\ RegistryIdle
    /\ ExtractIdle /\ ApiIdle

SpecIntakeSeq == InitIntakeSeq /\ [][IntakeSeqNext]_vars

InitIntakeConcurrent ==
    IntakeConcurrentInit /\ MemIdle /\ LlmCallIdle /\ DateIdle /\ ReportIdle
    /\ RegistryIdle /\ ExtractIdle /\ ApiIdle

SpecIntakeConcurrent == InitIntakeConcurrent /\ [][IntakeConcurrentNext]_vars

InitDate ==
    DateInit /\ MemIdle /\ LlmCallIdle /\ IntakeIdle /\ ReportIdle /\ RegistryIdle
    /\ ExtractIdle /\ ApiIdle

SpecDate == InitDate /\ [][DateNext]_vars

InitReport ==
    ReportInit /\ MemIdle /\ LlmCallIdle /\ IntakeIdle /\ DateIdle /\ RegistryIdle
    /\ ExtractIdle /\ ApiIdle

SpecReport == InitReport /\ [][ReportNext]_vars

InitRegistry ==
    RegistryInit /\ MemIdle /\ LlmIdle /\ IntakeIdle /\ DateIdle /\ ReportIdle
    /\ ExtractIdle /\ ApiIdle

SpecRegistry == InitRegistry /\ [][RegistryNext]_vars

InitExtract ==
    ExtractInit /\ MemIdle /\ LlmCallIdle /\ IntakeIdle /\ DateIdle /\ ReportIdle
    /\ RegistryIdle /\ ApiIdle

SpecExtract == InitExtract /\ [][ExtractNext]_vars

InitApi ==
    ApiInit /\ MemIdle /\ LlmCallIdle /\ DateIdle /\ ReportIdle /\ RegistryIdle
    /\ ExtractIdle

SpecApi == InitApi /\ [][ApiNext]_vars

InitApiConcurrent ==
    ApiInit /\ MemIdle /\ LlmCallIdle /\ DateIdle /\ ReportIdle /\ RegistryIdle
    /\ ExtractIdle

SpecApiConcurrent == InitApiConcurrent /\ [][ApiConcurrentNext]_vars

-----------------------------------------------------------------------------
(* The claims *)

MemReaders ==
    {"search", "search_metadata", "latest_by_type", "all", "get_metadata"}

\* C6: Memory is append-only. A write adds exactly one entry, holding the
\* written text, at the end of the list and leaves the earlier entries and
\* their order as they were; search, search_metadata, latest_by_type, all
\* and get_metadata change neither the entries nor the metadata; a step that
\* is not a clear leaves the old list a prefix of the new one, so only clear
\* ever shortens it.
C6_AppendOnly ==
    [][/\ memCall'.op = "write" =>
            /\ Len(_entries') = Len(_entries) + 1
            /\ SubSeq(_entries', 1, Len(_entries)) = _entries
            /\ _entries'[Len(_entries')].text = memCall'.text
       /\ memCall'.op \in MemReaders =>
            /\ _entries' = _entries
            /\ _metadata' = _metadata
       /\ memCall'.op # "clear" =>
            /\ IsPrefix(_entries, _entries')
            /\ Len(_entries') >= Len(_entries)
       /\ Len(_entries') < Len(_entries) => memCall'.op = "clear"]_vars

\* a second write has landed behind an earlier entry
C6_Witness ==
    /\ memCall.op = "write"
    /\ Len(_entries) >= 2
    /\ _entries[1].text # _entries[2].text

\* the indices of the entries whose metadata[key] is value
MetaMatches(key, value) ==
    {i \in 1..Len(_entries) : DictGet(_entries[i].metadata, key) = value}

\* the j-th greatest element of a set of numbers
NthGreatest(S, j) == CHOOSE i \in S : Cardinality({m \in S : m > i}) = j - 1

\* the j-th smallest element of a set of numbers
NthSmallest(S, j) == CHOOSE i \in S : Cardinality({m \in S : m < i}) = j - 1

\* C7: search_metadata(key, value, k), k >= 0, returns at most k entries,
\* each with metadata[key] = value, newest first: exactly the min(k, m) most
\* recently written of the m matching entries; latest_by_type(t) returns the
\* most recently written entry of type t, and None exactly when there is none.
C7_SearchMetadata ==
    /\ memCall.op = "search_metadata" =>
         LET M == MetaMatches(memCall.key, memCall.value)
             n == Min(memCall.k, Cardinality(M))
         IN  /\ Len(memRet) <= memCall.k
             /\ Len(memRet) = n
             /\ \A j \in 1..Len(memRet) :
                   /\ DictGet(memRet[j].metadata, memCall.key) = memCall.value
                   /\ j <= n => memRet[j] = _entries[NthGreatest(M, j)]
    /\ memCall.op = "latest_by_type" =>
         LET M == MetaMatches("type", Some(memCall.entry_type))
         IN  /\ (memRet = None) <=> (M = {})
             /\ M # {} => memRet = Some(_entries[NthGreatest(M, 1)])

\* C7 for k >= 1: what search_metadata does return
C7_SearchMetadataFromOne ==
    (memCall.op = "search_metadata" /\ memCall.k = 0) \/ C7_SearchMetadata

\* t contains q, letter case ignored
CIContains(t, q) ==
    \E off \in 0..(Len(t) - Len(q)) :
        \A j \in 1..Len(q) : LowerChar(t[off + j]) = LowerChar(q[j])

\* C8: search(query, k), k >= 0, returns in insertion order the first
\* min(k, m) of the m entries whose text contains the trimmed query, letter
\* case ignored: never an entry that does not contain it, never more than k.
C8_Search ==
    memCall.op = "search" =>
        LET q == Strip(memCall.query)
            M == {i \in 1..Len(_entries) : CIContains(_entries[i].text, q)}
            n == Min(memCall.k, Cardinality(M))
        IN  /\ Len(memRet) = n
            /\ \A j \in 1..n : memRet[j] = _entries[NthSmallest(M, j)]

\* a padded upper-case query matched two entries, one of them only when case
\* is ignored, and k = 1 kept the older
C8_Witness ==
    /\ memCall.op = "search"
    /\ memCall.query = <<" ", "A", "b", " ">>
    /\ memCall.k = 1
    /\ Len(_entries) = 2
    /\ _entries[1].text = <<"b", "A", "b">>
    /\ _entries[2].text = <<"a", "b">>
    /\ memRet = <<_entries[1]>>

-----------------------------------------------------------------------------
(* run_intake_summary and score_date_exchange *)

\* the whole text is a JSON object
IsJsonObject(t) == json_loads(t).ok /\ json_loads(t).isDict

\* a JSON object can be extracted from the text: stripped and without its
\* code fence lines, the text from its first "{" to its last "}" (all of it
\* where there is no such span) is a JSON object
HasJsonObject(t) == IsJsonObject(FirstBlock(StripFences(Strip(t))))

IntakeKeys == {"preferences", "dealbreakers", "dating_thesis"}

\* what run_intake_summary does in a step of SpecLlm that ends its await,
\* the fallback being due for the responses that satisfy Unparsed
IntakeStep(Unparsed(_)) ==
    (llm.pc = "await" /\ llm.fn = "run_intake_summary") =>
        /\ llm'.pc = "returned" =>
             LET u == llm.user_id
                 old == memory[u]
                 new == memory'[u]
                 e == new[Len(new)]
                 stripped == Strip(llm'.response)
                 embedded == json_loads(SubSeq(e.text, 5, Len(e.text)))
             IN  /\ IntakeKeys \subseteq DOMAIN llmRet'.vals
                 /\ Len(new) = Len(old) + 1
                 /\ SubSeq(new, 1, Len(old)) = old
                 /\ \A a \in Agents \ {u} : memory'[a] = memory[a]
                 /\ DictGet(e.metadata, "type") = <<"intake_summary">>
                 /\ DictGet(e.metadata, "user_id") = <<u>>
                 /\ embedded.ok /\ embedded.isDict
                 /\ embedded.val.vals = llmRet'.vals
                 /\ Unparsed(llm'.response) =>
                      /\ DOMAIN llmRet'.vals = IntakeKeys
                      /\ llmRet'.vals["preferences"]
                           = <<"Unable to parse preferences">>
                      /\ llmRet'.vals["dealbreakers"]
                           = <<"Unable to parse dealbreakers">>
                      /\ LET thesis == llmRet'.vals["dating_thesis"]
                             both == 0..Min(Len(thesis), Len(stripped))
                         IN  /\ TextWidth(thesis, Len(thesis))
                                  = Min(ThesisMax, TextWidth(stripped, Len(stripped)))
                             /\ \A m \in both :
                                    TextWidth(stripped, m) <= ThesisMax =>
                                        SubSeq(thesis, 1, m) = SubSeq(stripped, 1, m)
        /\ llm'.pc = "raised" => memory' = memory

NotJsonObject(t) == ~IsJsonObject(t)

NoJsonObject(t) == ~HasJsonObject(t)

\* C4 as the spec states it: whenever the client returns a text,
\* run_intake_summary returns a dict with the keys preferences, dealbreakers
\* and dating_thesis and appends exactly one entry of type intake_summary
\* with the agent's user_id to its own memory, whose text embeds the summary;
\* if the response is not a JSON object the summary is the fallback; if the
\* client raises no entry is written.
C4_Original == [][IntakeStep(NotJsonObject)]_vars

\* C4, amended: as C4_Original, but the summary is the fallback (exactly)
\* when no JSON object can be extracted from the response, that is when the
\* stripped response without its code fence lines, taken from its first "{"
\* to its last "}", does not parse as a JSON object; a response with text
\* around a JSON object is parsed, not replaced by the fallback.
C4_IntakeSummary ==
    [][/\ IntakeStep(NoJsonObject)
       /\ (llm.pc = "await" /\ llm.fn = "run_intake_summary"
             /\ llm'.pc = "returned" /\ HasJsonObject(llm'.response)) =>
            LET parsed == json_loads(FirstBlock(StripFences(Strip(llm'.response))))
            IN  \A k \in DOMAIN parsed.val.vals :
                    llmRet'.vals[k] = parsed.val.vals[k]
      ]_vars

\* run_intake_summary returned the fallback for a padded response longer
\* than the cut, and the agent's memory, which held an entry, has a second
C4_Witness ==
    /\ llm.pc = "returned"
    /\ llm.fn = "run_intake_summary"
    /\ NoJsonObject(llm.response)
    /\ TextWidth(Strip(llm.response), Len(Strip(llm.response))) > ThesisMax
    /\ llm.response[1] = " "
    /\ Len(memory[llm.user_id]) = 2
    /\ llmRet.vals["preferences"] = <<"Unable to parse preferences">>

ScoreKeys == {"score_a", "score_b", "compatibility", "reasons", "quote"}

\* C5: whenever the client returns a text, score_date_exchange returns (it
\* never raises) a dict with the five keys score_a, score_b, compatibility,
\* reasons and quote: the keys of a parsed JSON object keep the model's
\* values, the missing ones get 5, 5, 50, ["Unable to parse reasons"] and
\* ""; a response from which no JSON object can be parsed gives exactly
\* 5/5/50 with the one reason "Scoring failed - unable to parse LLM
\* response" and the empty quote.
C5_Score ==
    ("response" \in DOMAIN llm /\ llm.fn = "score_date_exchange") =>
        /\ llm.pc = "returned"
        /\ ScoreKeys \subseteq DOMAIN llmRet.vals
        /\ IF HasJsonObject(llm.response)
           THEN LET parsed == json_loads(FirstBlock(StripFences(Strip(llm.response)))).val.vals
                    Missing(k) == k \in ScoreKeys \ DOMAIN parsed
                IN  /\ DOMAIN llmRet.vals = DOMAIN parsed \cup ScoreKeys
                    /\ \A k \in DOMAIN parsed : llmRet.vals[k] = parsed[k]
                    /\ Missing("score_a") => llmRet.vals["score_a"] = 5
                    /\ Missing("score_b") => llmRet.vals["score_b"] = 5
                    /\ Missing("compatibility") => llmRet.vals["compatibility"] = 50
                    /\ Missing("reasons") =>
                         llmRet.vals["reasons"] = <<"Unable to parse reasons">>
                    /\ Missing("quote") => llmRet.vals["quote"] = <<>>
           ELSE /\ DOMAIN llmRet.vals = ScoreKeys
                /\ llmRet.vals["score_a"] = 5
                /\ llmRet.vals["score_b"] = 5
                /\ llmRet.vals["compatibility"] = 50
                /\ llmRet.vals["reasons"]
                     = <<"Scoring failed - unable to parse LLM response">>
                /\ llmRet.vals["quote"] = <<>>

\* score_date_exchange returned the model's reasons and compatibility and the
\* defaults of the three keys the model left out
C5_Witness ==
    /\ llm.pc = "returned"
    /\ llm.fn = "score_date_exchange"
    /\ llm.response = <<"{", "RE?", "CO50", "}">>
    /\ llmRet.vals["compatibility"] = 50
    /\ llmRet.vals["score_a"] = 5
    /\ llmRet.vals["score_b"] = 5
    /\ llmRet.vals["quote"] = <<>>
    /\ llmRet.vals["reasons"] = <<"Unable to parse reasons">>


\* C1: in a session answered by sequential submit_answer calls, the n-th
\* call that returns (n = 1..4) returns is_complete = false, final_summary =
\* None, a non-empty next question and step_index = n; the 5th returns
\* is_complete = true, question = None, step_index = 5 and a final summary;
\* no call returns after the 5th.  A session is marked complete only by the
\* call that stores its 5th answer: never with fewer than five answers
\* stored and four calls returned.
C1_LiveIntake ==
    \A sid \in SessionIds :
        /\ live[sid].pc = "returned" =>
             LET ret == live[sid].ret
                 n == accepted[sid]
             IN  /\ n \in 1..TotalQuestions
                 /\ ret.step_index = n
                 /\ n < TotalQuestions =>
                      /\ ret.is_complete = FALSE
                      /\ ret.final_summary = None
                      /\ ret.question # None
                      /\ Strip(ret.question[1]) # <<>>
                 /\ n = TotalQuestions =>
                      /\ ret.is_complete = TRUE
                      /\ ret.question = None
                      /\ ret.final_summary # None
        /\ (sid \in DOMAIN _sessions /\ _sessions[sid].is_complete) =>
             /\ Len(_sessions[sid].answers) >= TotalQuestions
             /\ accepted[sid] >= TotalQuestions - 1
             /\ accepted[sid] = TotalQuestions - 1 => live[sid].pc # "returned"

\* the 5th answer of a session of user_001 returned the final summary, after
\* a fallback question and a generated one
C1_Witness ==
    \E sid \in DOMAIN _sessions :
        /\ accepted[sid] = TotalQuestions
        /\ live[sid].pc = "returned"
        /\ live[sid].ret.is_complete
        /\ live[sid].ret.step_index = 5
        /\ _sessions[sid].user_id = "user_001"
        /\ _sessions[sid].questions[2] = <<"f1">>
        /\ _sessions[sid].questions[3] = <<"x">>

-----------------------------------------------------------------------------
(* run_date_exchange *)

ReturnKeys ==
    {"scene", "transcript", "evaluator_notes", "delta_insight", "reflections",
     "score"}

\* C2: every run_date_exchange that returned gives a transcript of exactly 6
\* turns labelled A, B, A, B, A, B, each turn named by the display name of
\* user_a for label A and of user_b for label B, together with the keys
\* scene, evaluator_notes, delta_insight, reflections and score.
C2_Transcript ==
    date.pc = "returned" =>
        /\ DOMAIN dateRet = ReturnKeys
        /\ Len(dateRet.transcript) = 6
        /\ \A i \in 1..Len(dateRet.transcript) :
             LET t == dateRet.transcript[i]
             IN  /\ t.speaker = IF i % 2 = 1 THEN "A" ELSE "B"
                 /\ t.speaker = "A" => t.name = DisplayName(date.user_a)
                 /\ t.speaker = "B" => t.name = DisplayName(date.user_b)

\* a date of Jordan (user_001) and Alex (user_002) returned
C2_Witness ==
    /\ date.pc = "returned"
    /\ date.user_a = "user_001"
    /\ date.user_b = "user_002"
    /\ Len(dateRet.transcript) = 6
    /\ dateRet.transcript[1].name = "Jordan"
    /\ dateRet.transcript[2].name = "Alex"
    /\ dateRet.transcript[6].speaker = "B"

\* the model calls of a run, in order, for the agents given
ExpectedCalls(agent_a, agent_b) ==
    <<"scene", "test_moment", "turn", "turn", "turn", "turn", "turn", "turn",
      "notes", "delta">>
    \o (IF agent_a # None THEN <<"reflection_a">> ELSE <<>>)
    \o (IF agent_b # None THEN <<"reflection_b">> ELSE <<>>)
    \o <<"score">>

\* C3: in every run_date_exchange that returned, the model calls were one
\* scene call, one test-moment call, six dialogue-turn calls, one
\* evaluator-notes call, one delta-insight call, the reflection call for
\* agent A, the reflection call for agent B and one scoring call, in this
\* order (13 calls when both agents have a memory; an agent without one gets
\* no reflection call); during a run the calls issued are a prefix of this
\* sequence and a call is issued only when every earlier call has finished.
C3_CallOrder ==
    date.pc # "idle" =>
        LET expected == ExpectedCalls(date.agent_a, date.agent_b)
            pending == Len(date.calls) - date.done
        IN  /\ IsPrefix(date.calls, expected)
            /\ pending \in {0, 1}
            /\ pending = 1 <=> date.pc \notin {"returned", "raised"}
            /\ pending = 1 => date.pc = date.calls[Len(date.calls)]
            /\ date.pc = "returned" => date.calls = expected
            /\ (date.pc = "returned" /\ date.agent_a # None /\ date.agent_b # None)
                 => Len(date.calls) = 13

\* a run with both agents returned after 13 calls, agent B's reflection call
\* having raised
C3_Witness ==
    /\ date.pc = "returned"
    /\ date.agent_a # None
    /\ date.agent_b # None
    /\ date.done = 13
    /\ date.calls[11] = "reflection_a"
    /\ date.calls[12] = "reflection_b"
    /\ date.reflection_a # <<>>
    /\ date.reflection_b = <<>>

-----------------------------------------------------------------------------
(* _extract_latest_date_exchange *)

\* the entries of a sequence, as a set
Range(seq) == {seq[i] : i \in 1..Len(seq)}

\* the date_exchange entries in the memory of an agent given whose partner
\* is in the set partners
ExchangesWith(agent, partners) ==
    {e \in Range(EntriesOf(agent)) :
        /\ e.metadata.type = "date_exchange"
        /\ e.metadata.partner_user_id \in partners}

\* the date_exchange entries for the pair of the last call
PairEntries ==
    ExchangesWith(latest.agent_a, {latest.user_b})
    \cup ExchangesWith(latest.agent_b, {latest.user_a})

\* the date_exchange entries with a third user
ThirdEntries ==
    ExchangesWith(latest.agent_a, UserIds \ {latest.user_a, latest.user_b})
    \cup ExchangesWith(latest.agent_b, UserIds \ {latest.user_a, latest.user_b})

\* C9: _extract_latest_date_exchange returns the text of a date_exchange
\* entry for the pair whose timestamp is the greatest among the entries for
\* the pair in either agent's memory; it returns None exactly when neither
\* memory holds such an entry; the text of an entry with a third user is
\* never returned.
C9_LatestExchange ==
    latest.pc = "returned" =>
        /\ latest.ret = None <=> PairEntries = {}
        /\ latest.ret # None =>
             \E e \in PairEntries :
                /\ e.text = latest.ret[1]
                /\ \A f \in PairEntries :
                     f.metadata.timestamp <= e.metadata.timestamp
        /\ \A e \in ThirdEntries : latest.ret # Some(e.text)

\* Jordan's memory holds a date with Sam at time 2 and, written after it,
\* two dates with Alex, the first at time 2 and the second at time 1; the
\* call for Jordan and Alex returned the text of a date at time 2
C9_Witness ==
    /\ latest.pc = "returned"
    /\ latest.user_a = "user_001"
    /\ latest.user_b = "user_002"
    /\ latest.agent_a # None
    /\ latest.agent_b = None
    /\ latest.ret # None
    /\ LET mine == SelectSeq(memory["user_001"],
                             LAMBDA e : e.metadata.type = "date_exchange")
       IN  /\ Len(mine) = 3
           /\ mine[1].metadata.partner_user_id = "user_003"
           /\ mine[1].metadata.timestamp = 2
           /\ mine[2].metadata.partner_user_id = "user_002"
           /\ mine[2].metadata.timestamp = 2
           /\ mine[3].metadata.partner_user_id = "user_002"
           /\ mine[3].metadata.timestamp = 1
           /\ mine[2].text # mine[3].text
           /\ latest.ret = Some(mine[2].text)

-----------------------------------------------------------------------------
(* The registry *)

\* the registry object, once constructed
TheRegistry == objects[_registry[1]]

\* C10: the registry holds exactly one MatchmakerAgent per demo user and one
\* NeutralEvaluatorAgent; for every user id get_matchmaker(id) is non-None
\* exactly when get_user(id) is non-None; all calls of get_registry, of
\* get_matchmaker(id) and of get_evaluator return the same object; what
\* requests wrote to a matchmaker's memory is what a later request reads.
C10_Singleton ==
    /\ \A k \in HandKeys : Cardinality(handed[k]) <= 1
    /\ _registry # None =>
         /\ handed["get_registry"] \subseteq {_registry[1]}
         /\ TheRegistry.kind = "AgentRegistry"
         /\ DOMAIN TheRegistry._matchmakers = UserIds
         /\ TheRegistry._evaluator # None
         /\ objects[TheRegistry._evaluator[1]].kind = "NeutralEvaluatorAgent"
         /\ Cardinality({i \in 1..Len(objects) :
                            objects[i].kind = "NeutralEvaluatorAgent"}) = 1
         /\ \A u \in UserIds :
              /\ objects[TheRegistry._matchmakers[u]].kind = "MatchmakerAgent"
              /\ objects[TheRegistry._matchmakers[u]].user_id = u
              /\ objects[TheRegistry._matchmakers[u]].entries = written[u]
              /\ Cardinality({i \in 1..Len(objects) :
                    /\ objects[i].kind = "MatchmakerAgent"
                    /\ objects[i].user_id = u}) = 1
         /\ \A user_id \in RegistryArgs :
              AgentRegistry_get_matchmaker(TheRegistry, user_id) # None
                <=> AgentRegistry_get_user(TheRegistry, user_id) # None
    /\ regRet.fn = "get_matchmaker" =>
         regRet.ret # None <=> regRet.user_id \in UserIds
    /\ regRet.fn = "get_user" =>
         regRet.ret # None <=> regRet.user_id \in UserIds
    /\ regRet.fn = "get_evaluator" => "ret" \in DOMAIN regRet
    /\ regRet.fn = "memory.all" =>
         /\ regRet.ret # None <=> regRet.user_id \in UserIds
         /\ regRet.ret # None => regRet.ret[1] = written[regRet.user_id]

\* after two writes to the memory of Jordan's matchmaker, a request read both
\* entries, and get_registry, get_evaluator and get_matchmaker("user_001")
\* have each returned one object
C10_Witness ==
    /\ regRet.fn = "memory.all"
    /\ regRet.user_id = "user_001"
    /\ Len(written["user_001"]) = 2
    /\ regRet.ret = Some(written["user_001"])
    /\ Cardinality(handed["get_registry"]) = 1
    /\ Cardinality(handed["get_evaluator"]) = 1
    /\ Cardinality(handed["user_001"]) = 1

-----------------------------------------------------------------------------
(* Live intake: failures *)

\* the client raised, or answered only whitespace
NoQuestion(response) == response = None \/ Strip(response[1]) = <<>>

\* C12: when the call that generates the next question raises or returns
\* only whitespace, submit_answer still returns, for the new step_index i in
\* 1..4 the question it returns and appends to the session is
\* _FALLBACK_QUESTIONS[i-1] (the i-th of the list), and the step changes the
\* session as a successful generation does: it appends the question and
\* nothing else, and no memory changes.
C12_Fallback ==
    [][\A sid \in SessionIds :
          live[sid].pc = "await_question" /\ live'[sid] # live[sid] =>
              LET i == live[sid].step_index
                  out == live'[sid]
              IN  /\ out.pc = "returned"
                  /\ i \in 1..(TotalQuestions - 1)
                  /\ out.ret.step_index = i
                  /\ out.ret.is_complete = FALSE
                  /\ out.ret.final_summary = None
                  /\ out.ret.question # None
                  /\ _sessions' = [_sessions EXCEPT ![sid].questions =
                                      Append(@, out.ret.question[1])]
                  /\ memory' = memory
                  /\ NoQuestion(out.response) =>
                        out.ret.question[1] = _FALLBACK_QUESTIONS[i]
                  /\ ~NoQuestion(out.response) =>
                        out.ret.question[1] = Strip(out.response[1])]_vars

\* the third answer of a session returned the third fallback question after
\* the client raised; the second had returned the second fallback question
\* after a blank answer of the client or a raise
C12_Witness ==
    \E sid \in DOMAIN _sessions :
        /\ live[sid].pc = "returned"
        /\ "response" \in DOMAIN live[sid]
        /\ live[sid].response = None
        /\ live[sid].ret.step_index = 3
        /\ live[sid].ret.question = Some(<<"f3">>)
        /\ _sessions[sid].questions[3] = <<"f2">>
        /\ _sessions[sid].questions[4] = <<"f3">>
        /\ Len(_sessions[sid].questions) = 4

\* C14: submit_answer on an unknown session id, or on a session that is
\* already complete, raises ValueError and changes nothing: the sessions
\* (their answers, questions, step_index and is_complete, and the set of
\* them) and every agent memory are the same before and after the call.
C14_Rejected ==
    [][\A sid \in SessionIds :
          (/\ live[sid].pc \notin AwaitPcs
           /\ live'[sid] # live[sid]
           /\ (sid \notin DOMAIN _sessions \/ _sessions[sid].is_complete)) =>
              /\ live'[sid] = Raised("ValueError")
              /\ _sessions' = _sessions
              /\ memory' = memory
              /\ accepted' = accepted]_vars

\* a complete session with its five answers has rejected a sixth, and an
\* unknown session id has been rejected
C14_Witness ==
    \E sid \in DOMAIN _sessions, other \in SessionIds \ DOMAIN _sessions :
        /\ _sessions[sid].is_complete
        /\ Len(_sessions[sid].answers) = TotalQuestions
        /\ _sessions[sid].step_index = TotalQuestions
        /\ live[sid] = Raised("ValueError")
        /\ live[other] = Raised("ValueError")
        /\ Len(memory["user_001"]) = TotalQuestions + 1

\* the intake_summary entries in the memory of a user's matchmaker
IntakeSummaries(user_id) ==
    SelectSeq(memory[user_id], LAMBDA e : e.metadata.type = "intake_summary")

\* C16: whenever no submit_answer call is in flight for it, a session of a
\* user with a matchmaker that is marked is_complete has had its final
\* summary produced: the agent's memory holds an intake_summary entry.
C16_Finalized ==
    \A sid \in DOMAIN _sessions :
        (/\ live[sid].pc \notin AwaitPcs
         /\ _sessions[sid].is_complete
         /\ get_matchmaker(_sessions[sid].user_id) # None) =>
            IntakeSummaries(_sessions[sid].user_id) # <<>>

-----------------------------------------------------------------------------
(* Live intake: the questions and their answers *)

\* the intake_live entries a session has written to the memory of its user
LiveEntries(sid) ==
    SelectSeq(memory[_sessions[sid].user_id],
              LAMBDA e : /\ e.metadata.type = "intake_live"
                         /\ e.metadata.session_id = sid)

\* "Q1: q1\nA1: a1\n\nQ2: q2\nA2: a2 ..." for five questions and answers
FiveQA(q, a) ==
    <<"Q1: ">> \o q[1] \o <<"\n", "A1: ">> \o a[1] \o <<"\n", "\n">>
    \o <<"Q2: ">> \o q[2] \o <<"\n", "A2: ">> \o a[2] \o <<"\n", "\n">>
    \o <<"Q3: ">> \o q[3] \o <<"\n", "A3: ">> \o a[3] \o <<"\n", "\n">>
    \o <<"Q4: ">> \o q[4] \o <<"\n", "A4: ">> \o a[4] \o <<"\n", "\n">>
    \o <<"Q5: ">> \o q[5] \o <<"\n", "A5: ">> \o a[5]

\* C17: in a session answered one call after another, every answer stored
\* has written exactly one intake_live entry to the memory of the user's
\* matchmaker, the i-th with step_index i-1 and the text "Q: question i, A:
\* answer i"; every accepted answer is among them; and the extra context
\* given to run_intake_summary at finalization pairs question i with answer
\* i for i = 1..5 in order.
C17_Pairing ==
    \A sid \in DOMAIN _sessions :
        LET session == _sessions[sid]
            written_live == LiveEntries(sid)
        IN  /\ Len(written_live) = Len(session.answers)
            /\ Len(written_live) = session.step_index
            /\ accepted[sid] <= Len(written_live)
            /\ Len(written_live) <= accepted[sid] + 1
            /\ \A i \in 1..Len(written_live) :
                 /\ written_live[i].metadata.step_index = i - 1
                 /\ written_live[i].text =
                      <<"Q: ">> \o session.questions[i]
                      \o <<"\n", "A: ">> \o session.answers[i]
            /\ live[sid].pc = "await_summary" =>
                 /\ Len(session.questions) = TotalQuestions
                 /\ Len(session.answers) = TotalQuestions
                 /\ live[sid].extra_context =
                      FiveQA(session.questions, session.answers)

\* a session is being finalized whose answers and whose questions are not
\* all the same
C17_Witness ==
    \E sid \in DOMAIN _sessions :
        /\ live[sid].pc = "await_summary"
        /\ _sessions[sid].answers =
             << <<"a1">>, <<"a2">>, <<"a2">>, <<"a1">>, <<"a2">> >>
        /\ _sessions[sid].questions =
             << <<"q1">>, <<"f1">>, <<"x">>, <<"f3">>, <<"x">> >>
        /\ Len(LiveEntries(sid)) = TotalQuestions
        /\ accepted[sid] = TotalQuestions - 1

-----------------------------------------------------------------------------
(* Live intake: concurrent requests *)

\* C15: under every interleaving of submit_answer and get_status calls on a
\* session, every session has step_index = len(answers) <= 5, is complete
\* exactly when step_index >= 5, and has at most 5 questions; get_status
\* never reports questions_answered different from step_index or greater
\* than total_questions.
C15_SessionInvariant ==
    /\ \A sid \in DOMAIN _sessions :
         /\ _sessions[sid].step_index = Len(_sessions[sid].answers)
         /\ _sessions[sid].step_index <= TotalQuestions
         /\ _sessions[sid].is_complete <=>
              _sessions[sid].step_index >= TotalQuestions
         /\ Len(_sessions[sid].questions) <= TotalQuestions
    /\ (intakeRet.pc = "returned" /\ "questions_answered" \in DOMAIN intakeRet.ret) =>
         /\ intakeRet.ret.questions_answered = intakeRet.ret.step_index
         /\ intakeRet.ret.questions_answered <= intakeRet.ret.total_questions

\* what does hold of the sessions under every interleaving: step_index is at
\* most 5 and at most len(answers), the session is complete exactly when
\* step_index >= 5, and it has at most 5 questions, at most one more than
\* step_index
C15_SessionBounds ==
    \A sid \in DOMAIN _sessions :
        /\ _sessions[sid].step_index <= Len(_sessions[sid].answers)
        /\ _sessions[sid].step_index <= TotalQuestions
        /\ _sessions[sid].is_complete <=>
             _sessions[sid].step_index >= TotalQuestions
        /\ Len(_sessions[sid].questions) <= TotalQuestions
        /\ Len(_sessions[sid].questions) <= _sessions[sid].step_index + 1

-----------------------------------------------------------------------------
(* _extract_intake_summary *)

\* the entries of a memory whose text mentions "intake summary" in any case
Mentioning(entries) ==
    SelectSeq(entries, LAMBDA e :
        \E i \in 1..Len(e.text) : LowerChar(e.text[i]) = "intake summary")

\* the text holds a JSON object: some block from a "{" to a later "}" parses
HoldsObject(text) ==
    \E i, j \in 1..Len(text) :
        /\ i < j /\ text[i] = "{" /\ text[j] = "}"
        /\ json_loads(SubSeq(text, i, j)).ok

\* the entry the function reads: the last of the first five that mention it
Selected(entries) ==
    Mentioning(entries)[Min(Len(Mentioning(entries)), SearchK)]

-----------------------------------------------------------------------------
(* The endpoints *)

\* the entries the evaluator's memory has gained since the request in slot s
\* arrived
Gained(s) ==
    SubSeq(memory["evaluator"], requests[s].base + 1, Len(memory["evaluator"]))

\* those of the entries whose metadata type is one of types
OfTypes(entries, types) ==
    SelectSeq(entries, LAMBDA e : e.metadata.type \in types)

TypesOf(entries) == [i \in 1..Len(entries) |-> entries[i].metadata.type]

\* C11: a pipeline request makes its calls of run_date_exchange one after
\* another (a call is made only when every earlier one has returned, and at
\* most three are made) and calls generate_pipeline_report only after the
\* third has returned; when it has responded, three runs and one report call
\* were made, the evaluator's memory has gained, in this order, a
\* date_exchange_eval and a date_score entry for each of the three runs and
\* then one pipeline_report entry, which is its last entry, and the i-th
\* element of the response's dates is the result of the i-th run (its scene
\* is the scene of the i-th date_exchange_eval entry gained).
C11_Pipeline ==
    \A s \in RequestIds :
        LET req == requests[s]
            gained == OfTypes(Gained(s), {"date_exchange_eval", "date_score",
                                          "pipeline_report"})
            evals == OfTypes(Gained(s), {"date_exchange_eval"})
        IN  req.kind = "pipeline" =>
              /\ req.started <= PipelineDates
              /\ req.pc = "exchange" =>
                    req.started = Len(req.exchanges) + 1 /\ req.reports = 0
              /\ req.pc \in {"intake_a", "intake_b"} =>
                    req.started = 0 /\ req.reports = 0
              /\ req.pc = "pipeline_report" =>
                    /\ req.started = PipelineDates
                    /\ Len(req.exchanges) = PipelineDates
                    /\ req.reports = 1
                    /\ TypesOf(gained) =
                         <<"date_exchange_eval", "date_score",
                           "date_exchange_eval", "date_score",
                           "date_exchange_eval", "date_score">>
              /\ req.pc = "done" =>
                    /\ req.started = PipelineDates /\ req.reports = 1
                    /\ DOMAIN req.response =
                         {"user_a_id", "user_b_id", "dates", "final_report"}
                    /\ Len(req.response.dates) = PipelineDates
                    /\ TypesOf(gained) =
                         <<"date_exchange_eval", "date_score",
                           "date_exchange_eval", "date_score",
                           "date_exchange_eval", "date_score",
                           "pipeline_report">>
                    /\ memory["evaluator"][Len(memory["evaluator"])].metadata.type
                         = "pipeline_report"
                    /\ \A i \in 1..PipelineDates :
                          /\ evals[i].text[6] = "Scene: "
                          /\ <<evals[i].text[7]>> = req.response.dates[i].scene

\* a pipeline has responded whose three dates were at the park, at the cafe
\* and at the cafe, after an earlier request had written to the evaluator's
\* memory
C11_Witness ==
    /\ requests["r1"].kind = "pipeline"
    /\ requests["r1"].pc = "done"
    /\ requests["r1"].base > 0
    /\ requests["r1"].response.dates[1].scene = <<"park">>
    /\ requests["r1"].response.dates[2].scene = <<"cafe">>
    /\ requests["r1"].response.dates[3].scene = <<"cafe">>

\* the entries hold one whose metadata type is intake_summary
HasIntakeSummary(entries) ==
    \E i \in 1..Len(entries) : entries[i].metadata.type = "intake_summary"

\* the request in slot s calls evaluator.run_date_exchange in this step
CallsExchange(s) ==
    /\ requests'[s] # requests[s]
    /\ requests'[s].pc = "exchange"
    /\ requests'[s].d.pc = "scene"
    /\ requests'[s].d.done = 0

\* C13: whenever the date-exchange or the pipeline endpoint calls
\* evaluator.run_date_exchange, the memory of the matchmaker of user A and the
\* memory of the matchmaker of user B each hold at least one entry whose
\* metadata type is intake_summary, whatever intake, live-intake, report and
\* date-exchange requests were served before.
C13_SummaryBeforeDate ==
    [][\A s \in RequestIds :
          CallsExchange(s) =>
              /\ HasIntakeSummary(memory'[requests'[s].user_a])
              /\ HasIntakeSummary(memory'[requests'[s].user_b])]_vars

\* C19: when only date-exchange and pipeline requests are served, starting
\* with empty memories and interleaving at their awaits, no matchmaker's
\* memory ever holds more than one intake_summary entry: the automatic
\* intake step writes a summary for an agent at most once, however many
\* requests involve its user.
C19_AtMostOnce ==
    \A u \in UserIds :
        Len(OfTypes(memory[u], {"intake_summary"})) <= 1

\* the agents whose memory a step changes
Changed == {a \in Agents : memory'[a] # memory[a]}

\* the users of the live-intake sessions a step changes
AnsweredUsers ==
    {_sessions'[sid].user_id : sid \in
        {x \in DOMAIN _sessions' : x \notin DOMAIN _sessions
                                   \/ _sessions'[x] # _sessions[x]}}

=============================================================================
